---- MODULE Spec2Model ----
(***************************************************************************)
(* Resilience coordinator of the PV telemetry pipeline (src/src/health.rs) *)
(* with its two-tier storage engine (src/src/db.rs) and the broker health  *)
(* tracker (src/src/mqtt.rs).                                              *)
(*                                                                         *)
(* One action models one iteration of the loop of run_coordinator: the     *)
(* run_cycle of the current state, the transition it asks for, and the     *)
(* sleep.  The outcome of every I/O call (collector, upstream, cache file, *)
(* broker) is an input of the iteration, and so is the poll the broker     *)
(* event loop task makes while the iteration is awaiting; the polls it     *)
(* makes during the sleep are steps of their own.  trace is the list of    *)
(* the I/O calls the iteration made, in program order; last describes it.  *)
(*                                                                         *)
(* Samples are numbered 1, 2, ... in the order of their collection; a row  *)
(* carries the number of its sample in place of the sample's values.       *)
(*                                                                         *)
(* A run makes at most MaxIterations iterations before its Shutdown cycle, *)
(* and the environment makes at most MaxFaults calls fail (a missing       *)
(* upstream pool is not counted: it fails every upstream call).            *)
(***************************************************************************)
EXTENDS Integers, Sequences, FiniteSets, Bags, TLC

\* ------------------------------------------------------------------ bounds
MaxIterations == 2   \* iterations of the loop of run_coordinator
MaxFaults == 3       \* failures the environment injects in one run
MaxPolls == 2        \* polls of the event loop task as the loop ends
SyncBatchSize == 1   \* CacheConfig.sync_batch_size
MaxBatch == 2        \* largest configured sync_batch_size of DrainSpec

\* ------------------------------------------------------- program constants
RecoverySecs == 10
SleepSecs == 60
DisconnectedAfter == 3
PublishUnhealthyAbove == 3
PollUnhealthyAfter == 3
DefaultMaxFailures == 3
\* Utc::now() is read once per record conversion; an iteration converts at
\* most four records (two upstream writes, two cache copies).
MaxConversions == 4

VARIABLES
  coordinator,            \* CoordinatorKind: the type-state of the coordinator
  exit,                   \* "running", or how run_coordinator ended
  pool,                   \* PostgresDatabase.pool is Some
  sync_batch_size,        \* CacheConfig, from CACHE_SYNC_BATCH_SIZE
  max_failures_before_degraded, \* DatabaseConfig, from DB_MAX_FAILURES
  pg_state,               \* PostgresState, the upstream health tracker
  pv_data,                \* upstream tables pv_power_data, pv_energy_data
  pv_cache,               \* live cache tables pv_power_cache, pv_energy_cache
  pv_archive,             \* archive tables (bags: timestamp is not unique there)
  mqtt_state,             \* MQTTState, the broker health tracker
  consecutive_errors,     \* local counter of the broker event loop task
  since_recovery_attempt, \* last_recovery_attempt.elapsed(), in seconds
  samples,                \* number of samples collected so far
  iterations,             \* number of iterations of the loop so far
  faults,                 \* number of failures injected so far
  trace,                  \* I/O calls of the iteration just made (empty after
                          \* any other step)
  last                    \* the iteration just made: state before, result,
                          \* sample, cache and elapsed time before
                          \* (NoIteration after any other step)

VARIABLES
  response,               \* RawPVMessage.value the device answers, by path
  battery_config,         \* BatteryConfig
  attempt,                \* loop variable of collect_raw_data_with_retry
  delays,                 \* the sleeps of the collection so far, in ms
  raw_data,               \* Result<RawPVData> of the collection; status
                          \* "pending", "Ok" or "Err"
  processed_data,         \* ProcessedData::process_raw(raw_data); status
                          \* "none", "Ok" or "panic"
  power_record            \* PvPowerRecord::from(&processed_data); status
                          \* "none" or "Ok"

\* the collection and the transformer of one cycle
sample_vars == <<response, battery_config, attempt, delays, raw_data,
                 processed_data, power_record>>

vars == <<coordinator, exit, pool, sync_batch_size,
          max_failures_before_degraded, pg_state,
          pv_data, pv_cache, pv_archive, mqtt_state, consecutive_errors,
          since_recovery_attempt, samples, iterations, faults, trace, last,
          sample_vars>>

Kinds == {"power", "energy"}

\* BatteryConfig::new without MAX_BATTERY_ENERGY and EMPTY_THRESHOLD set
DefaultBatteryConfig == [max_battery_energy |-> 10000, empty_threshold |-> 10]

\* no collection under way: the cycle's sample is the number in samples
NoCollection ==
  /\ response = [dc_power |-> 0, production_power |-> 0, grid_power |-> 0,
                 battery_state |-> 0, battery_power |-> 0,
                 consumption_power |-> 0]
  /\ battery_config = DefaultBatteryConfig
  /\ attempt = 0
  /\ delays = <<>>
  /\ raw_data = [status |-> "pending"]
  /\ processed_data = [status |-> "none"]
  /\ power_record = [status |-> "none"]
States == {"Healthy", "DegradedNoDB", "DegradedNoMqtt", "CacheOnly", "Shutdown"}

Min(a, b) == IF a < b THEN a ELSE b

\* ------------------------------------------------------------------ tables
Row(t, s) == [timestamp |-> t, sample |-> s]
Timestamps(table) == {r.timestamp : r \in table}

\* a plain INSERT into a table without the UNIQUE constraint on timestamp
Upsert_without_unique(table, row) == table \cup {row}

\* INSERT ... ON CONFLICT (timestamp) DO UPDATE, and INSERT OR REPLACE
Upsert(table, row) == {r \in table : r.timestamp # row.timestamp} \cup {row}

\* ON CONFLICT (timestamp) DO UPDATE SET value = value + EXCLUDED.value
InsertOrIgnore_accumulating(table, row) ==
  IF row.timestamp \in Timestamps(table)
  THEN {IF r.timestamp = row.timestamp
        THEN [r EXCEPT !.sample = @ + row.sample] ELSE r : r \in table}
  ELSE table \cup {row}

\* ON CONFLICT (timestamp) DO UPDATE, as the live write does
InsertOrIgnore_replacing(table, row) ==
  {r \in table : r.timestamp # row.timestamp} \cup {row}

\* INSERT ... ON CONFLICT (timestamp) DO NOTHING
InsertOrIgnore(table, row) ==
  IF row.timestamp \in Timestamps(table) THEN table ELSE table \cup {row}

\* Utc::now() at the k-th record conversion (k = 0, 1, ...) of the iteration
\* that collected sample s.  Two conversions are separated by a database
\* call, so the clock has advanced; iterations are 60 s apart.
Timestamp(s, k) == (s - 1) * MaxConversions + k

\* The record conversion: the timestamp key is the wall clock at conversion.
RecordTimestamp(w) == Timestamp(w.sample, w.clock)
Converted(w) == [w EXCEPT !.clock = @ + 1]

Log(w, op, ok, ts) ==
  [w EXCEPT !.trace = Append(@, [op |-> op, ok |-> ok, ts |-> ts])]

\* --------------------------------------------------------- upstream store
\* a success that leaves the failure count and the last error
update_success_keeping_count(st) == [st EXCEPT !.health = "Healthy"]

update_success(st) ==
  [st EXCEPT !.health = "Healthy", !.consecutive_failures = 0,
             !.last_error = FALSE]

\* a failure judged against the configured threshold
update_failure_configured(st) ==
  LET n == st.consecutive_failures + 1 IN
  [st EXCEPT !.consecutive_failures = n, !.last_error = TRUE,
             !.health = IF n >= max_failures_before_degraded
                        THEN "Disconnected" ELSE "Degraded"]

update_failure(st) ==
  LET n == st.consecutive_failures + 1 IN
  [st EXCEPT !.consecutive_failures = n, !.last_error = TRUE,
             !.health = IF n >= DisconnectedAfter THEN "Disconnected"
                        ELSE "Degraded"]

set_health(st, h) == [st EXCEPT !.health = h]

PgOp(kind) == IF kind = "power" THEN "pg_power" ELSE "pg_energy"

\* PostgresDatabase::store_power_data / store_energy_data.  Without a pool
\* the call fails before the conversion and before the tracker is touched.
pg_store_data(w, kind, ok) ==
  IF ~pool THEN Log(w, PgOp(kind), FALSE, -1)
  ELSE LET ts == RecordTimestamp(w)
           w1 == Log(Converted(w), PgOp(kind), ok, ts) IN
       IF ok
       THEN [w1 EXCEPT
               !.pv_data[kind] = Upsert(@, Row(ts, w.sample)),
               !.pg_state = update_success(@)]
       ELSE [w1 EXCEPT !.pg_state = update_failure(@)]

pg_store_power_data(w, ok) == pg_store_data(w, "power", ok)
pg_store_energy_data(w, ok) == pg_store_data(w, "energy", ok)

\* a probe that reaches upstream without the pool of the construction
health_check_result_reconnecting(w, ok) ==
  IF ok THEN "Healthy" ELSE update_failure(w.pg_state).health

\* PostgresDatabase::health_check: the health it returns, and the tracker.
health_check_result(w, ok) ==
  IF ~pool THEN "Disconnected"
  ELSE IF ok THEN "Healthy" ELSE update_failure(w.pg_state).health

health_check(w, ok) ==
  LET w1 == Log(w, "health_check", pool /\ ok, -1) IN
  IF ~pool THEN [w1 EXCEPT !.pg_state = set_health(@, "Disconnected")]
  ELSE IF ok THEN [w1 EXCEPT !.pg_state = update_success(@)]
  ELSE [w1 EXCEPT !.pg_state = update_failure(@)]

\* ------------------------------------------------------------ cache store
CacheOp(kind) == IF kind = "power" THEN "cache_power" ELSE "cache_energy"

\* SqliteCache::store_power_data / store_energy_data: INSERT OR REPLACE.
cache_store_data(w, kind, ok) ==
  LET ts == RecordTimestamp(w)
      w1 == Log(Converted(w), CacheOp(kind), ok, ts) IN
  IF ok
  THEN [w1 EXCEPT !.pv_cache[kind] = Upsert(@, Row(ts, w.sample))]
  ELSE w1

cache_store_power_data(w, ok) == cache_store_data(w, "power", ok)
cache_store_energy_data(w, ok) == cache_store_data(w, "energy", ok)

\* ----------------------------------------------------------- cache drain
RECURSIVE SortRows(_)
\* ORDER BY timestamp ASC
SortRows(table) ==
  IF table = {} THEN <<>>
  ELSE LET first == CHOOSE r \in table :
                      \A q \in table : r.timestamp <= q.timestamp
       IN <<first>> \o SortRows(table \ {first})

\* SELECT ... ORDER BY timestamp ASC LIMIT sync_batch_size; SQLite reads a
\* negative LIMIT as no limit
take_batch(table) ==
  LET rows == SortRows(table)
  IN IF sync_batch_size < 0 THEN rows
     ELSE SubSeq(rows, 1, Min(sync_batch_size, Len(rows)))

ReplayOp(kind) == IF kind = "power" THEN "replay_power" ELSE "replay_energy"
ArchiveOp(kind) == IF kind = "power" THEN "archive_power" ELSE "archive_energy"
SelectOp(kind) == IF kind = "power" THEN "select_power" ELSE "select_energy"

\* a replay upsert that reports its outcome to the upstream health tracker
store_serialized_data_tracking(w, kind, row, ok) ==
  LET w1 == Log(w, ReplayOp(kind), pool /\ ok, row.timestamp) IN
  IF pool /\ ok
  THEN [w1 EXCEPT !.pv_data[kind] = InsertOrIgnore(@, row),
                  !.pg_state = update_success(@)]
  ELSE [w1 EXCEPT !.pg_state = update_failure(@)]

\* SqliteCache::store_serialized_power_data / _energy_data: the replay upsert.
\* It does not touch the upstream health tracker.
store_serialized_data(w, kind, row, ok) ==
  LET w1 == Log(w, ReplayOp(kind), pool /\ ok, row.timestamp) IN
  IF pool /\ ok
  THEN [w1 EXCEPT !.pv_data[kind] = InsertOrIgnore(@, row)]
  ELSE w1

RECURSIVE ReplayBatch(_, _, _, _, _)
\* the for loop of sync_*_data_batch: every row of the batch is tried
ReplayBatch(w, kind, batch, oks, i) ==
  IF i > Len(batch) THEN w
  ELSE ReplayBatch(store_serialized_data(w, kind, batch[i], oks[i]),
                   kind, batch, oks, i + 1)

\* SqliteCache::archive_power_records / archive_energy_records.  The first
\* statement, INSERT INTO pv_<kind>_archive SELECT ... FROM pv_<kind>_cache,
\* runs on the transaction of the archive pool, whose file has no table
\* pv_<kind>_cache; were both pools on one file, the DELETE on the second
\* connection would find the database locked.  Either way the statement
\* returns Err, `?` leaves the function and both transactions are dropped,
\* which rolls them back: nothing is archived, nothing is deleted.
archive_records(w, kind, rows) ==
  [w |-> Log(w, ArchiveOp(kind), FALSE, -1), ok |-> FALSE]

\* SqliteCache::sync_power_data_batch / sync_energy_data_batch.
\* d.select: the SELECT succeeded; d.oks[i]: upstream took row i of the batch.
\* Returns the world and Ok/Err: the Err of the archival is returned with `?`.
sync_data_batch(w, kind, d) ==
  IF ~d.select THEN [w |-> Log(w, SelectOp(kind), FALSE, -1), ok |-> FALSE]
  ELSE
    LET batch == take_batch(w.pv_cache[kind])
        w1 == Log(w, SelectOp(kind), TRUE, -1)
        w2 == ReplayBatch(w1, kind, batch, d.oks, 1)
        timestamps_to_archive ==
          {batch[i] : i \in {j \in 1..Len(batch) : pool /\ d.oks[j]}}
    IN IF Len(batch) = 0 THEN [w |-> w1, ok |-> TRUE]
       ELSE IF timestamps_to_archive = {} THEN [w |-> w2, ok |-> TRUE]
       ELSE archive_records(w2, kind, timestamps_to_archive)

sync_power_data_batch(w, d) == sync_data_batch(w, "power", d)
sync_energy_data_batch(w, d) == sync_data_batch(w, "energy", d)

\* SqliteCache::sync_to_postgres: power first; an Err of the power batch
\* returns before the energy batch.
sync_to_postgres(w, drain) ==
  LET p == sync_power_data_batch(w, drain.power) IN
  IF ~p.ok THEN p ELSE sync_energy_data_batch(p.w, drain.energy)

\* ----------------------------------------------------------------- broker
\* SolarMqttClient::publish_current_data
publish_current_data(w, ok) ==
  LET w1 == Log(w, "publish_current", ok, -1)
      n == w.mqtt_state.failed_publish_count + 1 IN
  IF ok THEN w1
  ELSE [w1 EXCEPT !.mqtt_state =
          [status |-> IF n > PublishUnhealthyAbove THEN "Unhealthy"
                      ELSE "Degraded",
           failed_publish_count |-> n]]

\* publish_state_data, publish_history_data: the result is not returned and
\* the health status is not changed.
publish_state_data(w) == Log(w, "publish_state", TRUE, -1)
publish_history_data(w) == Log(w, "publish_history", TRUE, -1)

\* publish_availability: an error of the publication is logged, nothing is
\* returned and the health status is not changed.
publish_availability(w, available, ok) ==
  Log(w, IF available THEN "publish_online" ELSE "publish_offline", ok, -1)

get_health_status(w) == w.mqtt_state.status

\* a loop that reports Unhealthy one poll error late
poll_unhealthy_late(st, errors, event) ==
  CASE event = "Err" ->
         [mqtt_state |->
            [st EXCEPT !.status = IF errors + 1 > PollUnhealthyAfter
                                  THEN "Unhealthy" ELSE "Degraded"],
          consecutive_errors |-> errors + 1]
    [] event = "ConnAck" ->
         [mqtt_state |-> [st EXCEPT !.status = "Healthy"],
          consecutive_errors |-> 0]
    [] event = "PubAck" ->
         [mqtt_state |->
            IF st.failed_publish_count > 0
            THEN [status |-> "Healthy", failed_publish_count |-> 0] ELSE st,
          consecutive_errors |-> 0]
    [] event = "Disconnect" ->
         [mqtt_state |-> [st EXCEPT !.status = "Unhealthy"],
          consecutive_errors |-> 0]
    [] OTHER -> [mqtt_state |-> st, consecutive_errors |-> 0]

\* one poll of the broker event loop task spawned by SolarMqttClient::new
poll(st, errors, event) ==
  CASE event = "Err" ->
         [mqtt_state |->
            [st EXCEPT !.status = IF errors + 1 >= PollUnhealthyAfter
                                  THEN "Unhealthy" ELSE "Degraded"],
          consecutive_errors |-> errors + 1]
    [] event = "ConnAck" ->
         [mqtt_state |-> [st EXCEPT !.status = "Healthy"],
          consecutive_errors |-> 0]
    [] event = "PubAck" ->
         [mqtt_state |->
            IF st.failed_publish_count > 0
            THEN [status |-> "Healthy", failed_publish_count |-> 0] ELSE st,
          consecutive_errors |-> 0]
    [] event = "Disconnect" ->
         [mqtt_state |-> [st EXCEPT !.status = "Unhealthy"],
          consecutive_errors |-> 0]
    [] OTHER -> [mqtt_state |-> st, consecutive_errors |-> 0]

\* the packets and errors eventloop.poll() can return
Events == {"Err", "ConnAck", "PubAck", "Disconnect", "Other"}

\* The event loop task runs beside the coordinator: while an iteration is
\* awaiting it may poll.  No cycle reads or writes the broker state more than
\* once, so a poll during an iteration comes before that access (early) or
\* after it (late); "None": the task did not poll.
Arrived(w, event) ==
  IF event = "None" THEN w
  ELSE LET p == poll(w.mqtt_state, w.consecutive_errors, event)
       IN [w EXCEPT !.mqtt_state = p.mqtt_state,
                    !.consecutive_errors = p.consecutive_errors]

\* ------------------------------------------------------------ coordinator
\* The mutable world an iteration works on.  s is the number of the sample
\* the iteration collects if it collects one.
World(s) ==
  [sample |-> s, clock |-> 0,
   pg_state |-> pg_state, mqtt_state |-> mqtt_state,
   consecutive_errors |-> consecutive_errors,
   pv_data |-> pv_data, pv_cache |-> pv_cache, pv_archive |-> pv_archive,
   since |-> since_recovery_attempt, trace |-> <<>>]

\* a gate that is always open
should_attempt_recovery_always(w) == w.since >= 0

should_attempt_recovery(w) == w.since > RecoverySecs

\* collect_raw_data_with_retry, and RawPVData::fill_raw in CacheOnly
collect(w, ok) == Log(w, "collect", ok, -1)

Cycle(w, result, collected) ==
  [w |-> w, result |-> result, collected |-> collected]

\* A collection that returned no sample.  "Err": every attempt returned Err,
\* and the cycle goes on as its state says (on_err).  "Panic": a response
\* carried an address that is none of the requested paths, and the `_ =>` arm
\* of the match in get_data panicked: the task ends inside run_cycle.
collect_failed(w, outcome, on_err) ==
  Cycle(collect(w, FALSE), IF outcome = "Panic" THEN "Panic" ELSE on_err, FALSE)

\* ProcessedData::process_raw panicked on the sample the cycle had collected
\* (`.abs().try_into().unwrap()` on a grid power or a corrected battery power
\* of i32::MIN): the task ends inside run_cycle, before any write or
\* publication of the sample.
process_raw_panicked(w) == Cycle(collect(w, TRUE), "Panic", TRUE)

\* the match asking for Shutdown when both services failed
Healthy_decide_giving_up(db_ok, mqtt_ok) ==
  CASE db_ok /\ mqtt_ok -> "Continue"
    [] db_ok /\ ~mqtt_ok -> "ToDegradedNoMqtt"
    [] ~db_ok /\ mqtt_ok -> "ToDegradedNoDB"
    [] OTHER -> "ToShutdown"

\* the match at the end of Coordinator<Healthy>::run_cycle
Healthy_decide(db_ok, mqtt_ok) ==
  CASE db_ok /\ mqtt_ok -> "Continue"
    [] db_ok /\ ~mqtt_ok -> "ToDegradedNoMqtt"
    [] ~db_ok /\ mqtt_ok -> "ToDegradedNoDB"
    [] OTHER -> "ToCacheOnly"

\* Coordinator<Healthy>::run_cycle
Healthy_run_cycle(w, in) ==
  IF in.collect # "Ok" THEN collect_failed(w, in.collect, "Err")
  ELSE IF in.process # "Ok" THEN process_raw_panicked(w)
  ELSE LET w1 == pg_store_power_data(collect(w, TRUE), in.db_power)
           w2 == pg_store_energy_data(w1, in.db_energy)
           w3 == publish_current_data(w2, in.mqtt)
           w4 == publish_history_data(publish_state_data(w3))
       IN Cycle(w4,
                Healthy_decide(pool /\ in.db_power /\ in.db_energy, in.mqtt),
                TRUE)

\* Coordinator<DegradedNoDB>::run_cycle after the recovery probe
DegradedNoDB_degraded_cycle(w, in) ==
  IF in.collect # "Ok" THEN collect_failed(w, in.collect, "Err")
  ELSE IF in.process # "Ok" THEN process_raw_panicked(w)
  ELSE LET w1 == cache_store_power_data(collect(w, TRUE), in.cache_power)
           w2 == cache_store_energy_data(w1, in.cache_energy)
           w3 == publish_current_data(w2, in.mqtt)
           w4 == publish_history_data(publish_state_data(w3))
       IN IF ~in.cache_power THEN Cycle(w1, "ToShutdown", TRUE)
          ELSE IF ~in.cache_energy THEN Cycle(w2, "ToShutdown", TRUE)
          ELSE IF ~in.mqtt THEN Cycle(w3, "ToCacheOnly", TRUE)
          ELSE Cycle(w4, "Continue", TRUE)

\* the cycle collecting before it returns the transition of the probe
DegradedNoDB_run_cycle_collecting_first(w, in) ==
  IF should_attempt_recovery(w)
  THEN LET w1 == health_check(w, in.probe_db) IN
       IF health_check_result(w, in.probe_db) = "Healthy"
       THEN Cycle(collect(w1, TRUE), "ToHealthy", FALSE)
       ELSE DegradedNoDB_degraded_cycle([w1 EXCEPT !.since = 0], in)
  ELSE DegradedNoDB_degraded_cycle(w, in)

\* Coordinator<DegradedNoDB>::run_cycle
DegradedNoDB_run_cycle(w, in) ==
  IF should_attempt_recovery(w)
  THEN LET w1 == health_check(w, in.probe_db) IN
       IF health_check_result(w, in.probe_db) = "Healthy"
       THEN Cycle(w1, "ToHealthy", FALSE)
       ELSE DegradedNoDB_degraded_cycle([w1 EXCEPT !.since = 0], in)
  ELSE DegradedNoDB_degraded_cycle(w, in)

\* Coordinator<DegradedNoMqtt>::run_cycle after the recovery probe
DegradedNoMqtt_degraded_cycle(w, in) ==
  IF in.collect # "Ok" THEN collect_failed(w, in.collect, "Err")
  ELSE IF in.process # "Ok" THEN process_raw_panicked(w)
  ELSE LET w1 == pg_store_power_data(collect(w, TRUE), in.db_power)
           w2 == pg_store_energy_data(w1, in.db_energy)
       IN IF ~(pool /\ in.db_power /\ in.db_energy)
          THEN Cycle(w2, "ToCacheOnly", TRUE)
          ELSE Cycle(w2, "Continue", TRUE)

\* Coordinator<DegradedNoMqtt>::run_cycle
DegradedNoMqtt_run_cycle(w, in) ==
  IF should_attempt_recovery(w)
  THEN LET w1 == Log(w, "get_health_status",
                     get_health_status(w) = "Healthy", -1) IN
       IF get_health_status(w) = "Healthy"
       THEN Cycle(w1, "ToHealthy", FALSE)
       ELSE DegradedNoMqtt_degraded_cycle([w1 EXCEPT !.since = 0], in)
  ELSE DegradedNoMqtt_degraded_cycle(w, in)

\* the match on (db_healthy, mqtt_healthy) of Coordinator<CacheOnly>::run_cycle;
\* "Stay" is the arm that returns nothing and goes on with the cycle
CacheOnly_decide(db_healthy, mqtt_healthy) ==
  CASE db_healthy /\ mqtt_healthy -> "ToHealthy"
    [] db_healthy /\ ~mqtt_healthy -> "ToDegradedNoMqtt"
    [] ~db_healthy /\ mqtt_healthy -> "ToDegradedNoMqtt"
    [] OTHER -> "Stay"

\* Coordinator<CacheOnly>::run_cycle after the recovery probe: a failed
\* collection is logged and the cycle continues
CacheOnly_cache_cycle(w, in) ==
  IF in.collect # "Ok" THEN collect_failed(w, in.collect, "Continue")
  ELSE IF in.process # "Ok" THEN process_raw_panicked(w)
  ELSE LET w1 == cache_store_power_data(collect(w, TRUE), in.cache_power)
           w2 == cache_store_energy_data(w1, in.cache_energy)
       IN IF ~in.cache_power THEN Cycle(w1, "ToShutdown", TRUE)
          ELSE IF ~in.cache_energy THEN Cycle(w2, "ToShutdown", TRUE)
          ELSE Cycle(w2, "Continue", TRUE)

\* Coordinator<CacheOnly>::run_cycle
CacheOnly_run_cycle(w, in) ==
  IF should_attempt_recovery(w)
  THEN LET w1 == health_check(w, in.probe_db)
           w2 == Log(w1, "get_health_status",
                     get_health_status(w1) = "Healthy", -1)
           decision ==
             CacheOnly_decide(health_check_result(w, in.probe_db) = "Healthy",
                              get_health_status(w1) = "Healthy")
       IN IF decision = "Stay"
          THEN CacheOnly_cache_cycle([w2 EXCEPT !.since = 0], in)
          ELSE Cycle(w2, decision, FALSE)
  ELSE CacheOnly_cache_cycle(w, in)

\* Coordinator<Shutdown>::cleanup: the Err of the drain is only logged
cleanup(w, in) ==
  sync_to_postgres(publish_availability(w, FALSE, in.mqtt), in.drain).w

\* a Shutdown cycle that asks the loop to continue
Shutdown_run_cycle_continuing(w, in) ==
  Cycle(cleanup(w, in), "Continue", FALSE)

\* Coordinator<Shutdown>::run_cycle
Shutdown_run_cycle(w, in) == Cycle(cleanup(w, in), "Shutdown", FALSE)

\* ---------------------------------------------------------- transitions
Arrive(w, kind, how) == [w |-> w, coordinator |-> kind, exit |-> how]

\* Coordinator<Healthy>::to_degraded_no_db / to_cache_only: the sample is
\* copied to the cache; on a cache error to_shutdown() is called, its result
\* is dropped and unreachable!() panics.
Healthy_to_degraded(w, in, target) ==
  LET w1 == cache_store_power_data(w, in.cache_power)
      w2 == cache_store_energy_data(w1, in.cache_energy)
  IN IF ~in.cache_power \/ ~in.cache_energy
     THEN Arrive(w2, "Healthy", "panic")
     ELSE Arrive(w2, target, "running")

Healthy_to_degraded_no_db(w, in) == Healthy_to_degraded(w, in, "DegradedNoDB")
Healthy_to_cache_only(w, in) == Healthy_to_degraded(w, in, "CacheOnly")

\* Coordinator<DegradedNoDB>::to_healthy, Coordinator<CacheOnly>::to_healthy:
\* the Err of the drain is only logged
DegradedNoDB_to_healthy(w, in) ==
  Arrive(sync_to_postgres(w, in.drain).w, "Healthy", "running")
CacheOnly_to_healthy(w, in) ==
  Arrive(sync_to_postgres(w, in.drain).w, "Healthy", "running")

\* a transition that copies the sample to the cache once more
DegradedNoDB_to_cache_only_copying(w, in) == Healthy_to_cache_only(w, in)

\* Coordinator<DegradedNoDB>::to_cache_only: the sample handed over with
\* ToCacheOnly is dropped by run_coordinator, nothing is written
DegradedNoDB_to_cache_only(w, in) == Arrive(w, "CacheOnly", "running")

\* Coordinator<CacheOnly>::to_degraded_no_mqtt
CacheOnly_to_degraded_no_mqtt(w, in) == Arrive(w, "DegradedNoMqtt", "running")

\* the match of run_coordinator on the result of run_cycle
Transition(from, r, in) ==
  CASE r.result = "Continue" -> Arrive(r.w, from, "running")
    [] r.result = "Err" -> Arrive(r.w, from, "error")
    [] r.result = "Panic" -> Arrive(r.w, from, "panic")
    [] r.result = "Shutdown" -> Arrive(r.w, from, "done")
    [] r.result = "ToHealthy" ->
         CASE from = "DegradedNoDB" -> DegradedNoDB_to_healthy(r.w, in)
           [] from = "DegradedNoMqtt" -> Arrive(r.w, "Healthy", "running")
           [] from = "CacheOnly" -> CacheOnly_to_healthy(r.w, in)
           [] OTHER -> Arrive(r.w, from, "running")
    [] r.result = "ToDegradedNoDB" ->
         CASE from = "Healthy" -> Healthy_to_degraded_no_db(r.w, in)
           [] from \in {"DegradedNoMqtt", "CacheOnly"} ->
                Arrive(r.w, "DegradedNoDB", "running")
           [] OTHER -> Arrive(r.w, from, "running")
    [] r.result = "ToDegradedNoMqtt" ->
         CASE from \in {"Healthy", "DegradedNoDB"} ->
                Arrive(r.w, "DegradedNoMqtt", "running")
           [] from = "CacheOnly" -> CacheOnly_to_degraded_no_mqtt(r.w, in)
           [] OTHER -> Arrive(r.w, from, "running")
    [] r.result = "ToCacheOnly" ->
         CASE from = "Healthy" -> Healthy_to_cache_only(r.w, in)
           [] from = "DegradedNoDB" -> DegradedNoDB_to_cache_only(r.w, in)
           [] from = "DegradedNoMqtt" -> Arrive(r.w, "CacheOnly", "running")
           [] OTHER -> Arrive(r.w, from, "running")
    [] OTHER ->  \* ToShutdown
         IF from = "Shutdown" THEN Arrive(r.w, from, "running")
         ELSE Arrive(r.w, "Shutdown", "running")

\* tokio::time::sleep(Duration::from_secs(60)) at the end of an iteration.
\* Only "more than RecoverySecs" is ever asked of the elapsed time, so it is
\* kept up to two sleeps: one sleep after an instant that was just taken,
\* two for anything older.
sleep(since) == Min(since + SleepSecs, 2 * SleepSecs)

\* ------------------------------------------------------------------ inputs
NextSample == samples + 1

CollectOutcomes == {"Ok", "Err", "Panic"}
CollectIf(relevant) == IF relevant THEN CollectOutcomes ELSE {"Ok"}

\* process_raw on the sample collected: it returns, or it panics
ProcessOutcomes == {"Ok", "Panic"}
ProcessIf(relevant) == IF relevant THEN ProcessOutcomes ELSE {"Ok"}

\* What the event loop task does while an iteration is awaiting, before the
\* cycle's access to the broker state: it polls once or not at all ("None").
\* accesses: the cycle reads or writes the broker state; in a cycle that does
\* not, every poll is drawn among the later ones, an earlier one leaving the
\* same state.  The polls made during the sleep, those before the next
\* iteration's access included, are steps of their own (EventLoopPoll).
Arrivals(accesses) == IF accesses THEN {"None"} \cup Events ELSE {"None"}

\* 1 for an outcome that is a failure
Failed(ok) == IF ok THEN 0 ELSE 1
EventFaults(event) == Failed(event \notin {"Err", "Disconnect"})

\* The polls the event loop task makes in an iteration after the cycle's
\* access to the broker state.  An outcome is the broker state the polls
\* leave and the number of failures among them; the order of the polls shows
\* only there.  budget: the failures the run can still inject.
RECURSIVE PolledUpTo(_, _, _)
PolledUpTo(outcomes, n, budget) ==
  IF n = 0 THEN outcomes
  ELSE PolledUpTo(
         outcomes \cup UNION {
           {LET p == poll(o.mqtt_state, o.consecutive_errors, e)
            IN [mqtt_state |-> p.mqtt_state,
                consecutive_errors |-> p.consecutive_errors,
                faults |-> o.faults + EventFaults(e)] :
              e \in {x \in Events : o.faults + EventFaults(x) <= budget}} :
           o \in outcomes},
         n - 1, budget)

\* ended: the iteration ends the loop (Shutdown, or a panic of the task), and
\* the event loop task polls on until the process is gone, up to MaxPolls
\* times.  While the loop goes on, the polls after the first are made during
\* the sleep (EventLoopPoll).
LaterArrivals(w, ended, budget) ==
  PolledUpTo({[mqtt_state |-> w.mqtt_state,
               consecutive_errors |-> w.consecutive_errors, faults |-> 0]},
             IF ended THEN MaxPolls ELSE 1, budget)

DbOutcomes == IF pool THEN BOOLEAN ELSE {TRUE}
CacheOutcomes == BOOLEAN
OnlyIf(relevant, outcomes) == IF relevant THEN outcomes ELSE {TRUE}

AllOk(n) == [i \in 1..n |-> TRUE]
\* the drain of one kind in which no call of the environment fails
PerfectDrain(kind) ==
  [select |-> TRUE, oks |-> AllOk(Len(take_batch(pv_cache[kind])))]

\* the outcomes of one kind's drain batch
DrainOutcomes(kind) ==
  LET n == Len(take_batch(pv_cache[kind])) IN
  {[select |-> FALSE, oks |-> AllOk(n)]}
  \cup {[select |-> TRUE, oks |-> o] :
               o \in IF pool THEN [1..n -> BOOLEAN] ELSE {AllOk(n)}}

Drains(relevant) ==
  IF relevant
  THEN {[power |-> p, energy |-> e] :
          p \in DrainOutcomes("power"), e \in DrainOutcomes("energy")}
  ELSE {[power |-> PerfectDrain("power"), energy |-> PerfectDrain("energy")]}

NoDrain == [power |-> PerfectDrain("power"), energy |-> PerfectDrain("energy")]

Inputs(c, p, dp, de, pr, m, cp, ce, d, ev) ==
  [collect |-> c, process |-> p, db_power |-> dp, db_energy |-> de,
   probe_db |-> pr, mqtt |-> m, cache_power |-> cp, cache_energy |-> ce,
   drain |-> d, early |-> ev]

\* the number of failures among the outcomes of an iteration
DrainFaults(d) ==
  Failed(d.select) + Cardinality({i \in DOMAIN d.oks : ~d.oks[i]})
\* a poll that returned Err or a Disconnect packet
Faults(in) ==
  Failed(in.collect = "Ok") + Failed(in.process = "Ok")
    + Failed(in.db_power) + Failed(in.db_energy)
    + Failed(in.probe_db) + Failed(in.mqtt) + Failed(in.cache_power)
    + Failed(in.cache_energy) + DrainFaults(in.drain.power)
    + DrainFaults(in.drain.energy)
    + EventFaults(in.early)

\* ----------------------------------------------------------------- actions
NoIteration ==
  [from |-> "None", result |-> "None", collected |-> FALSE, sample |-> 0,
   cached |-> [kind \in Kinds |-> {}], since |-> 0]

\* one iteration of the loop of run_coordinator.  r is the result of
\* run_cycle on the world in which the early poll of the event loop task has
\* been made; the later polls come after the transition.
Step(from, r, in) ==
  /\ faults + Faults(in) <= MaxFaults
  /\ LET arrival == Transition(from, r, in) IN
     \E later \in LaterArrivals(arrival.w, arrival.exit # "running",
                                 MaxFaults - faults - Faults(in)) :
       LET t == [arrival EXCEPT
                   !.w.mqtt_state = later.mqtt_state,
                   !.w.consecutive_errors = later.consecutive_errors]
           injected == Faults(in) + later.faults IN
       /\ faults + injected <= MaxFaults
       /\ faults' = faults + injected
       /\ coordinator' = t.coordinator
       /\ exit' = t.exit
       /\ pg_state' = t.w.pg_state
       /\ mqtt_state' = t.w.mqtt_state
       /\ consecutive_errors' = t.w.consecutive_errors
       /\ pv_data' = t.w.pv_data
       /\ pv_cache' = t.w.pv_cache
       /\ pv_archive' = t.w.pv_archive
       /\ since_recovery_attempt' =
            IF t.exit = "running" THEN sleep(t.w.since) ELSE t.w.since
       /\ samples' = IF r.collected THEN r.w.sample ELSE samples
       /\ iterations' = iterations + 1
       /\ trace' = t.w.trace
       /\ last' = [from |-> from, result |-> r.result, collected |-> r.collected,
                   sample |-> IF r.collected THEN r.w.sample ELSE 0,
                   cached |-> pv_cache, since |-> since_recovery_attempt]
       /\ UNCHANGED <<pool, sync_batch_size,
                      max_failures_before_degraded, sample_vars>>

HealthyIteration ==
  /\ exit = "running" /\ iterations < MaxIterations /\ coordinator = "Healthy"
  /\ \E c \in CollectOutcomes :
     \E p \in ProcessIf(c = "Ok") :
     LET ok == c = "Ok" /\ p = "Ok" IN
     \E dp \in OnlyIf(ok, DbOutcomes) :
     \E de \in OnlyIf(ok, DbOutcomes) :
     \E m \in OnlyIf(ok, BOOLEAN) :
     \E cp \in OnlyIf(ok /\ ~(pool /\ dp /\ de), CacheOutcomes) :
     \E ce \in OnlyIf(ok /\ ~(pool /\ dp /\ de), CacheOutcomes) :
     \E ev \in Arrivals(ok /\ ~m) :
       LET in == Inputs(c, p, dp, de, TRUE, m, cp, ce, NoDrain, ev)
           w == Arrived(World(NextSample), ev)
       IN Step("Healthy", Healthy_run_cycle(w, in), in)

DegradedNoDBIteration ==
  /\ exit = "running" /\ iterations < MaxIterations /\ coordinator = "DegradedNoDB"
  /\ \E pr \in OnlyIf(should_attempt_recovery(World(0)), DbOutcomes) :
     LET probing == should_attempt_recovery(World(0))
         recover == probing /\ pool /\ pr IN
     \E d \in Drains(recover) :
     \E c \in CollectIf(~recover) :
     \E p \in ProcessIf(~recover /\ c = "Ok") :
     LET ok == ~recover /\ c = "Ok" /\ p = "Ok" IN
     \E cp \in OnlyIf(ok, CacheOutcomes) :
     \E ce \in OnlyIf(ok /\ cp, CacheOutcomes) :
     \E m \in OnlyIf(ok /\ cp /\ ce, BOOLEAN) :
     \E ev \in Arrivals(~m) :
       LET in == Inputs(c, p, TRUE, TRUE, pr, m, cp, ce, d, ev)
           w == Arrived(World(NextSample), ev)
       IN Step("DegradedNoDB", DegradedNoDB_run_cycle(w, in), in)

DegradedNoMqttIteration ==
  /\ exit = "running" /\ iterations < MaxIterations /\ coordinator = "DegradedNoMqtt"
  /\ \E ev \in Arrivals(should_attempt_recovery(World(0))) :
     LET w == Arrived(World(NextSample), ev)
         recover == should_attempt_recovery(w)
                    /\ get_health_status(w) = "Healthy" IN
     \E c \in CollectIf(~recover) :
     \E p \in ProcessIf(~recover /\ c = "Ok") :
     LET ok == ~recover /\ c = "Ok" /\ p = "Ok" IN
     \E dp \in OnlyIf(ok, DbOutcomes) :
     \E de \in OnlyIf(ok, DbOutcomes) :
       LET in == Inputs(c, p, dp, de, TRUE, TRUE, TRUE, TRUE, NoDrain, ev)
       IN Step("DegradedNoMqtt", DegradedNoMqtt_run_cycle(w, in), in)

CacheOnlyIteration ==
  /\ exit = "running" /\ iterations < MaxIterations /\ coordinator = "CacheOnly"
  /\ \E ev \in Arrivals(should_attempt_recovery(World(0))) :
     \E pr \in OnlyIf(should_attempt_recovery(World(0)), DbOutcomes) :
     LET w == Arrived(World(NextSample), ev)
         probing == should_attempt_recovery(w)
         db_healthy == probing /\ pool /\ pr
         mqtt_healthy == get_health_status(w) = "Healthy"
         leave == probing /\ (db_healthy \/ mqtt_healthy) IN
     \E d \in Drains(db_healthy /\ mqtt_healthy) :
     \E c \in CollectIf(~leave) :
     \E p \in ProcessIf(~leave /\ c = "Ok") :
     LET ok == ~leave /\ c = "Ok" /\ p = "Ok" IN
     \E cp \in OnlyIf(ok, CacheOutcomes) :
     \E ce \in OnlyIf(ok /\ cp, CacheOutcomes) :
       LET in == Inputs(c, p, TRUE, TRUE, pr, TRUE, cp, ce, d, ev)
       IN Step("CacheOnly", CacheOnly_run_cycle(w, in), in)

\* The Shutdown cycle ends the run, so it is not held back by MaxIterations.
ShutdownIteration ==
  /\ exit = "running" /\ coordinator = "Shutdown"
  /\ \E m \in BOOLEAN, d \in Drains(TRUE), ev \in Arrivals(FALSE) :
       LET in == Inputs("Ok", "Ok", TRUE, TRUE, TRUE, m, TRUE, TRUE, d, ev)
       IN Step("Shutdown", Shutdown_run_cycle(World(0), in), in)

EventLoopPoll ==
  /\ exit = "running"
  /\ \E event \in Events :
       /\ faults' = faults + EventFaults(event)
       /\ faults' <= MaxFaults
       /\ mqtt_state' = poll(mqtt_state, consecutive_errors, event).mqtt_state
       /\ consecutive_errors' =
            poll(mqtt_state, consecutive_errors, event).consecutive_errors
       /\ trace' = <<[op |-> "poll", ok |-> event # "Err", ts |-> -1]>>
  /\ last' = NoIteration
  /\ UNCHANGED <<coordinator, exit, pool, sync_batch_size,
                 max_failures_before_degraded,
                 pg_state, pv_data, pv_cache, pv_archive,
                 since_recovery_attempt, samples, iterations, sample_vars>>

\* Coordinator::check_postgres_health (impl<S> Coordinator<S>), the public
\* probe of upstream available in every state: it runs
\* PostgresDatabase::health_check, which writes the upstream health tracker,
\* and touches nothing else.  run_coordinator does not call it; it is a step
\* of whoever holds the coordinator between two cycles.  (Its sibling
\* check_mqtt_health only reads the broker state: a stuttering step.)
Coordinator_check_postgres_health ==
  /\ exit = "running"
  /\ \E ok \in DbOutcomes :
       LET w == health_check(World(0), ok) IN
       /\ faults + Failed(ok) <= MaxFaults
       /\ faults' = faults + Failed(ok)
       /\ pg_state' = w.pg_state
       /\ trace' = w.trace
  /\ last' = NoIteration
  /\ UNCHANGED <<coordinator, exit, pool, sync_batch_size,
                 max_failures_before_degraded,
                 mqtt_state, consecutive_errors, pv_data, pv_cache, pv_archive,
                 since_recovery_attempt, samples, iterations, sample_vars>>

\* the state after Coordinator<Healthy>::start
Init ==
  /\ coordinator = "Healthy"
  /\ exit = "running"
  /\ pool \in BOOLEAN
  /\ sync_batch_size = SyncBatchSize
  /\ max_failures_before_degraded = DefaultMaxFailures
  /\ NoCollection
  /\ pg_state = [health |-> IF pool THEN "Healthy" ELSE "Disconnected",
                 consecutive_failures |-> 0, last_error |-> FALSE]
  /\ pv_data = [kind \in Kinds |-> {}]
  /\ pv_cache = [kind \in Kinds |-> {}]
  /\ pv_archive = [kind \in Kinds |-> EmptyBag]
  /\ mqtt_state = [status |-> "Unknown", failed_publish_count |-> 0]
  /\ consecutive_errors = 0
  /\ since_recovery_attempt = 0
  /\ samples = 0
  /\ iterations = 0
  /\ faults = 0
  /\ trace = <<>>
  /\ last = NoIteration

Next ==
  \/ HealthyIteration
  \/ DegradedNoDBIteration
  \/ DegradedNoMqttIteration
  \/ CacheOnlyIteration
  \/ ShutdownIteration
  \/ EventLoopPoll
  \/ Coordinator_check_postgres_health

Spec == Init /\ [][Next]_vars

\* ------------------------------------------------- reading an iteration
\* the calls of the iteration just made
Calls(ops) == {i \in DOMAIN trace : trace[i].op \in ops}
Called(ops) == Calls(ops) # {}
AllSucceeded(ops) == \A i \in Calls(ops) : trace[i].ok
SomeFailed(ops) == \E i \in Calls(ops) : ~trace[i].ok

CacheWrites == {"cache_power", "cache_energy"}
UpstreamWrites == {"pg_power", "pg_energy"}
Replays == {"replay_power", "replay_energy"}
Selects == {"select_power", "select_energy"}
Archivals == {"archive_power", "archive_energy"}
Publications == {"publish_current", "publish_state", "publish_history",
                 "publish_online", "publish_offline"}

HasSample(table, s) == \E r \in table : r.sample = s
SampleCached == \A kind \in Kinds : HasSample(pv_cache[kind], last.sample)
SampleUpstream == \A kind \in Kinds : HasSample(pv_data[kind], last.sample)

\* the recovery transitions into Healthy that pass through to_healthy of a
\* state that writes to the cache
RecoveredToHealthy ==
  last.from \in {"DegradedNoDB", "CacheOnly"} /\ last.result = "ToHealthy"

\* ------------------------------------------------------------------ C1
\* C1: after an iteration that collected a sample in Healthy, DegradedNoDB,
\* DegradedNoMqtt or CacheOnly, and in which no cache write failed, the
\* upstream table or the live cache table of each kind holds a row of that
\* sample.
C1_EverySampleHasASink ==
  (/\ last.collected
   /\ last.from \in {"Healthy", "DegradedNoDB", "DegradedNoMqtt", "CacheOnly"}
   /\ ~SomeFailed(CacheWrites))
  => \A kind \in Kinds :
       \/ HasSample(pv_data[kind], last.sample)
       \/ HasSample(pv_cache[kind], last.sample)

\* ------------------------------------------------------------------ C2
HealthyCycle == last.from = "Healthy" /\ last.collected
UpstreamTookBoth == AllSucceeded(UpstreamWrites)
Published == AllSucceeded({"publish_current"})

HealthyOutcome ==
  /\ (UpstreamTookBoth /\ Published) => coordinator = "Healthy"
  /\ (UpstreamTookBoth /\ ~Published) => coordinator = "DegradedNoMqtt"
  /\ (~UpstreamTookBoth /\ Published) =>
       (coordinator = "DegradedNoDB" /\ SampleCached)
  /\ (~UpstreamTookBoth /\ ~Published) =>
       (coordinator = "CacheOnly" /\ SampleCached)

\* C2: a Healthy cycle that collected a sample ends in the state the pair
\* (upstream writes, publication) selects, with both samples in the live
\* cache when an upstream write failed.
C2_HealthyOutcome == HealthyCycle => (exit = "running" /\ HealthyOutcome)

\* the task ended inside process_raw, on the sample the cycle had collected
TransformerPanicked == last.collected /\ last.result = "Panic"

\* What the code does: the four arms hold of the Healthy cycles in which the
\* transformer returned and no copy to the live cache failed.
C2_HealthyOutcomeUnlessPanic ==
  (HealthyCycle /\ ~TransformerPanicked /\ ~SomeFailed(CacheWrites))
  => (exit = "running" /\ HealthyOutcome)

\* a Healthy cycle whose upstream write failed and whose copy to the live
\* cache failed: the task ended in the transition
C2_CopyFailedWitness ==
  /\ HealthyCycle /\ ~UpstreamTookBoth /\ SomeFailed(CacheWrites)
  /\ exit = "panic"

\* ------------------------------------------------------------------ C3
CacheOnlyProbe == last.from = "CacheOnly" /\ Called({"health_check"})
ProbeUpstreamHealthy == AllSucceeded({"health_check"})
ProbeBrokerHealthy == AllSucceeded({"get_health_status"})

\* C3: a CacheOnly iteration that probes ends in Healthy, DegradedNoMqtt,
\* DegradedNoDB or CacheOnly as upstream and broker are (Healthy, Healthy),
\* (Healthy, not), (not, Healthy) or (not, not); in the last case the cycle
\* goes on and only a failed cache write takes it out of CacheOnly.
C3_CacheOnlyProbe ==
  CacheOnlyProbe =>
    /\ (ProbeUpstreamHealthy /\ ProbeBrokerHealthy) => coordinator = "Healthy"
    /\ (ProbeUpstreamHealthy /\ ~ProbeBrokerHealthy) =>
         coordinator = "DegradedNoMqtt"
    /\ (~ProbeUpstreamHealthy /\ ProbeBrokerHealthy) =>
         coordinator = "DegradedNoDB"
    /\ (~ProbeUpstreamHealthy /\ ~ProbeBrokerHealthy
          /\ ~SomeFailed(CacheWrites)) => coordinator = "CacheOnly"

\* ------------------------------------------------------------------ C4
Before(first, then) ==
  \A i \in Calls(first), j \in Calls(then) : i < j

\* C4: a DegradedNoDB iteration whose probe finds upstream Healthy ends in
\* Healthy without collecting; one that collects makes no upstream call,
\* makes its cache writes before any publication, and ends in Shutdown if
\* a cache write failed, else has both samples in the live cache and ends
\* in CacheOnly if the publication failed and in DegradedNoDB if not.
C4_DegradedNoDBCycle ==
  last.from = "DegradedNoDB" =>
    /\ (Called({"health_check"}) /\ AllSucceeded({"health_check"})) =>
         (coordinator = "Healthy" /\ ~last.collected)
    /\ last.collected =>
         /\ ~Called(UpstreamWrites \cup Replays)
         /\ Before(CacheWrites, Publications)
         /\ SomeFailed(CacheWrites) => coordinator = "Shutdown"
         /\ ~SomeFailed(CacheWrites) =>
              /\ SampleCached
              /\ Called({"publish_current"})
              /\ SomeFailed({"publish_current"}) => coordinator = "CacheOnly"
              /\ ~SomeFailed({"publish_current"}) =>
                   coordinator = "DegradedNoDB"

\* What the code does: the same, but for the cycles in which the transformer
\* panicked on the sample collected, which touch neither cache nor broker.
C4_DegradedNoDBCycleUnlessPanic ==
  (last.from = "DegradedNoDB" /\ last.collected /\ TransformerPanicked)
  \/ C4_DegradedNoDBCycle

\* the transformer panicked in a DegradedNoDB cycle
C4_PanickedWitness ==
  /\ last.from = "DegradedNoDB" /\ last.collected /\ TransformerPanicked
  /\ ~Called(CacheWrites \cup Publications) /\ exit = "panic"

\* ------------------------------------------------------------------ C5
\* C5: a DegradedNoMqtt iteration whose probe finds the broker Healthy ends
\* in Healthy without collecting; one that collects publishes nothing,
\* attempts the upstream write of the power and of the energy sample, and
\* ends in CacheOnly if one of them failed, else has both samples upstream
\* and stays in DegradedNoMqtt.
C5_DegradedNoMqttCycle ==
  last.from = "DegradedNoMqtt" =>
    /\ (Called({"get_health_status"}) /\ AllSucceeded({"get_health_status"}))
         => (coordinator = "Healthy" /\ ~last.collected)
    /\ last.collected =>
         /\ ~Called(Publications)
         /\ Cardinality(Calls({"pg_power"})) = 1
         /\ Cardinality(Calls({"pg_energy"})) = 1
         /\ SomeFailed(UpstreamWrites) => coordinator = "CacheOnly"
         /\ ~SomeFailed(UpstreamWrites) =>
              (SampleUpstream /\ coordinator = "DegradedNoMqtt")

\* What the code does: the same, but for the cycles in which the transformer
\* panicked on the sample collected, which make no upstream write.
C5_DegradedNoMqttCycleUnlessPanic ==
  (last.from = "DegradedNoMqtt" /\ last.collected /\ TransformerPanicked)
  \/ C5_DegradedNoMqttCycle

\* the transformer panicked in a DegradedNoMqtt cycle
C5_PanickedWitness ==
  /\ last.from = "DegradedNoMqtt" /\ last.collected /\ TransformerPanicked
  /\ ~Called(UpstreamWrites) /\ exit = "panic"

\* ------------------------------------------------------------------ C6
\* the transitions that are to drain the cache
DrainingTransition ==
  \/ last.from = "DegradedNoDB" /\ last.result = "ToHealthy"
  \/ last.from = "CacheOnly" /\ last.result \in {"ToHealthy", "ToDegradedNoMqtt"}

\* the cache file answered every SELECT of the drain and upstream took every
\* replayed row (the archival is the program's own and is no part of this)
DrainWorked == ~SomeFailed(Selects \cup Replays)

\* C6: an iteration that makes one of the transitions DegradedNoDB ->
\* Healthy, CacheOnly -> Healthy, CacheOnly -> DegradedNoMqtt, and in which
\* no call of a drain failed, has read the power cache and the energy cache
\* for the drain; the destination's first sample write is in a later
\* iteration.
C6_TransitionsDrain ==
  (DrainingTransition /\ DrainWorked)
  => (Called({"select_power"}) /\ Called({"select_energy"}))

\* ------------------------------------------------------------------ C7
\* C7: after a recovery transition into Healthy in which upstream took every
\* replayed row, both live cache tables are empty, and every row that was
\* cached before it has its timestamp upstream and is in the archive.
C7_RecoveryDrainsAll ==
  (RecoveredToHealthy /\ DrainWorked)
  => \A kind \in Kinds :
       /\ pv_cache[kind] = {}
       /\ Timestamps(last.cached[kind]) \subseteq Timestamps(pv_data[kind])
       /\ \A row \in last.cached[kind] : BagIn(row, pv_archive[kind])

\* ------------------------------------------------------------------ C8
\* C8: when run_coordinator has returned after a cleanup in which upstream
\* and the cache file answered every call, no timestamp is left in the live
\* cache only; nothing runs after the return, so a row that is not upstream
\* then never gets there.
C8_NothingLeftBehind ==
  (exit = "done" /\ DrainWorked)
  => \A kind \in Kinds :
       Timestamps(pv_cache[kind]) \subseteq Timestamps(pv_data[kind])

\* ------------------------------------------------------------------ C9
DrainFailed == SomeFailed(Selects \cup Archivals)

\* C9: an iteration that recovers towards Healthy and whose drain returns an
\* error ends in DegradedNoDB or CacheOnly, with the loop still running.
C9_FailedDrainKeepsCaching ==
  (RecoveredToHealthy /\ DrainFailed)
  => (coordinator \in {"DegradedNoDB", "CacheOnly"} /\ exit = "running")

\* ----------------------------------------------------------------- C10
\* C10: an iteration in which a cache write failed, in a cycle or in a
\* transition out of Healthy, ends in Shutdown with the loop still running,
\* so that the next iteration is the cleanup.
C10_CacheErrorShutsDown ==
  SomeFailed(CacheWrites) => (coordinator = "Shutdown" /\ exit = "running")

\* ----------------------------------------------------------------- C11
SinkWrites == UpstreamWrites \cup CacheWrites \cup Replays

\* C11: an iteration whose collection failed leaves the coordinator in the
\* state it was in, with the loop still running, and has written no sample
\* to a sink.
C11_CollectFailureKeepsState ==
  SomeFailed({"collect"})
  => (exit = "running" /\ coordinator = last.from /\ ~Called(SinkWrites))

\* ----------------------------------------------------------------- C12
\* C12: when the loop of run_coordinator has ended and no cache write had
\* failed in its last iteration, that iteration was the cleanup of the
\* Shutdown state: a failure of the collector, of upstream or of the broker
\* does not end the loop.
C12_LoopEndsOnlyAfterCleanup ==
  (exit # "running" /\ ~SomeFailed(CacheWrites))
  => (last.from = "Shutdown" /\ Called({"publish_offline"}))

\* ----------------------------------------------------------------- C13
DrainCalls == Selects \cup Replays \cup Archivals

\* C13: the iteration of the Shutdown state calls publish_availability
\* (offline) first, then reads the power cache and the energy cache for the
\* drain, and ends the loop, whatever these calls return.
C13_CleanupOrder ==
  last.from = "Shutdown" =>
    /\ exit = "done"
    /\ trace[1].op = "publish_offline"
    /\ Before({"publish_offline"}, DrainCalls)
    /\ Called({"select_power"}) /\ Called({"select_energy"})

\* ----------------------------------------------------------------- C14
\* Coordinator<S>::run_cycle is public: a degraded coordinator can be asked
\* for a cycle any time after last_recovery_attempt was taken.
DegradedKinds == {"DegradedNoDB", "DegradedNoMqtt", "CacheOnly"}
Elapsed == {0, RecoverySecs - 1, RecoverySecs, RecoverySecs + 1, SleepSecs}

ProbeInit ==
  /\ coordinator \in DegradedKinds
  /\ exit = "running"
  /\ pool \in BOOLEAN
  /\ sync_batch_size = SyncBatchSize
  /\ max_failures_before_degraded = DefaultMaxFailures
  /\ NoCollection
  /\ pg_state = [health |-> IF pool THEN "Healthy" ELSE "Disconnected",
                 consecutive_failures |-> 0, last_error |-> FALSE]
  /\ pv_data = [kind \in Kinds |-> {}]
  /\ pv_cache = [kind \in Kinds |-> {}]
  /\ pv_archive = [kind \in Kinds |-> EmptyBag]
  /\ mqtt_state = [status |-> "Unknown", failed_publish_count |-> 0]
  /\ consecutive_errors = 0
  /\ since_recovery_attempt \in Elapsed
  /\ samples = 0
  /\ iterations = 0
  /\ faults = 0
  /\ trace = <<>>
  /\ last = NoIteration

ProbeSpec == ProbeInit /\ [][Next]_vars

Probes == {"health_check", "get_health_status"}
DegradedIteration == last.from \in DegradedKinds
Probed == DegradedIteration /\ Called(Probes)
StayedAfterProbe == Probed /\ coordinator = last.from /\ exit = "running"

\* C14: a cycle of a degraded state probes only when more than RecoverySecs
\* (so at least 10 s) have passed since last_recovery_attempt, and a probe
\* after which the coordinator stays in its state restarts that time: at the
\* next cycle exactly one sleep has passed since the probe.
C14_ProbeGate ==
  /\ Probed => last.since >= RecoverySecs
  /\ StayedAfterProbe => since_recovery_attempt = SleepSecs

C14_Witness == StayedAfterProbe /\ last.since = RecoverySecs + 1

\* a cycle made 10 s or less after last_recovery_attempt does not probe
C14_NoProbeWitness ==
  DegradedIteration /\ last.since = RecoverySecs /\ ~Called(Probes)

\* ------------------------------------------------------- the storage API
\* StoreSpec: the public operations of the two stores (DatabaseManager:
\* store_power_data, store_energy_data, sync_cache_to_postgres,
\* cleanup_old_cache, check_postgres_health) called in any order, with the clock reading of each
\* record conversion and the outcome of each statement as inputs.  Every
\* put stores a new sample.
MaxStoreOps == 3   \* operations in one run
MaxStoreFaults == 1  \* statements that fail in one run
MaxTime == 2       \* clock readings are 1..MaxTime

Times == 1..MaxTime

\* the world of an operation that converts sample v when the clock reads t
StoreWorld(v, t) == [World(v) EXCEPT !.clock = t - (v - 1) * MaxConversions]

\* SqliteCache::cleanup_old_cache: two DELETE statements on the live cache
\* tables, not in a transaction.  Outcomes: "ok", "power_err" (the first
\* DELETE failed), "energy_err" (the second did).
cleanup_old_cache(w, cutoff_date, outcome) ==
  LET kept(kind) == {r \in w.pv_cache[kind] : ~(r.timestamp < cutoff_date)}
      w1 == Log(w, "delete_power", outcome # "power_err", -1)
      w2 == Log([w1 EXCEPT !.pv_cache["power"] = kept("power")],
                "delete_energy", outcome = "ok", -1)
  IN IF outcome = "power_err" THEN w1
     ELSE IF outcome = "energy_err" THEN w2
     ELSE [w2 EXCEPT !.pv_cache["energy"] = kept("energy")]

NoTables == [kind \in Kinds |-> {}]
NoStoreOp ==
  [from |-> "None", kind |-> "None", row |-> Row(0, 0), ok |-> TRUE,
   data |-> NoTables, cached |-> NoTables,
   archived |-> [kind \in Kinds |-> EmptyBag],
   batch |-> NoTables, replayed |-> NoTables,
   prev |-> [from |-> "None", batch |-> NoTables, replayed |-> NoTables]]

\* the rows of the batch that upstream took in the operation that ended in w
Replayed(w, kind, batch) ==
  {r \in batch : \E i \in DOMAIN w.trace :
      /\ w.trace[i].op = ReplayOp(kind)
      /\ w.trace[i].ok /\ w.trace[i].ts = r.timestamp}

\* the operation that ended in w selected the batch of the kind: a drain
\* whose SELECT on the kind's live cache table succeeded
Selected(w, kind) ==
  \E i \in DOMAIN w.trace : w.trace[i].op = SelectOp(kind) /\ w.trace[i].ok

\* the rows that SELECT returns
BatchRows(kind) ==
  LET b == take_batch(pv_cache[kind]) IN {b[i] : i \in DOMAIN b}

\* one operation of the storage API; last keeps the tables before it, the
\* batch a drain selected of each kind (none for a kind whose SELECT failed
\* or was not reached) and the rows of it that upstream took
StoreStep(op, kind, row, ok, w, failures) ==
  /\ samples' = IF op \in {"put_upstream", "put_cache"}
                THEN NextSample ELSE samples
  /\ faults + failures <= MaxStoreFaults
  /\ faults' = faults + failures
  /\ pg_state' = w.pg_state
  /\ pv_data' = w.pv_data
  /\ pv_cache' = w.pv_cache
  /\ pv_archive' = w.pv_archive
  /\ iterations' = iterations + 1
  /\ trace' = w.trace
  /\ last' = [from |-> op, kind |-> kind, row |-> row, ok |-> ok,
              data |-> pv_data, cached |-> pv_cache, archived |-> pv_archive,
              batch |-> [k \in Kinds |->
                           IF op = "drain" /\ Selected(w, k)
                           THEN BatchRows(k) ELSE {}],
              replayed |-> [k \in Kinds |-> Replayed(w, k, BatchRows(k))],
              prev |-> [from |-> last.from, batch |-> last.batch,
                        replayed |-> last.replayed]]
  /\ UNCHANGED <<coordinator, exit, pool, sync_batch_size,
                 max_failures_before_degraded,
                 mqtt_state, consecutive_errors, since_recovery_attempt,
                 sample_vars>>

\* DatabaseManager::store_*_data(data, true): the live write to upstream
PutUpstream ==
  /\ exit = "running" /\ iterations < MaxStoreOps
  /\ \E kind \in Kinds, t \in Times, ok \in BOOLEAN :
       StoreStep("put_upstream", kind, Row(t, NextSample), ok,
                 pg_store_data(StoreWorld(NextSample, t), kind, ok),
                 Failed(ok))

\* DatabaseManager::store_*_data(data, false): the write to the live cache
PutCache ==
  /\ exit = "running" /\ iterations < MaxStoreOps
  /\ \E kind \in Kinds, t \in Times, ok \in BOOLEAN :
       StoreStep("put_cache", kind, Row(t, NextSample), ok,
                 cache_store_data(StoreWorld(NextSample, t), kind, ok),
                 Failed(ok))

\* DatabaseManager::sync_cache_to_postgres
Drain ==
  /\ exit = "running" /\ iterations < MaxStoreOps
  /\ \E d \in Drains(TRUE) :
       StoreStep("drain", "None", Row(0, 0), sync_to_postgres(World(0), d).ok,
              sync_to_postgres(World(0), d).w,
              DrainFaults(d.power) + DrainFaults(d.energy))

\* DatabaseManager::cleanup_old_cache
CleanupOldCache ==
  /\ exit = "running" /\ iterations < MaxStoreOps
  /\ \E cutoff_date \in 1..(MaxTime + 1) :
     \E outcome \in {"ok", "power_err", "energy_err"} :
       StoreStep("cleanup_old_cache", "None", Row(0, 0), outcome = "ok",
              cleanup_old_cache(World(0), cutoff_date, outcome),
              Failed(outcome = "ok"))

\* DatabaseManager::check_postgres_health
CheckPostgresHealth ==
  /\ exit = "running" /\ iterations < MaxStoreOps
  /\ \E ok \in BOOLEAN :
       StoreStep("check_postgres_health", "None", Row(0, 0), ok,
                 health_check(World(0), ok), Failed(ok))

\* the state after DatabaseManager::new with a reachable upstream
StoreInit ==
  /\ coordinator = "Healthy"
  /\ exit = "running"
  /\ pool = TRUE
  /\ sync_batch_size = SyncBatchSize
  /\ max_failures_before_degraded = DefaultMaxFailures
  /\ NoCollection
  /\ pg_state = [health |-> "Healthy", consecutive_failures |-> 0,
                 last_error |-> FALSE]
  /\ pv_data = NoTables
  /\ pv_cache = NoTables
  /\ pv_archive = [kind \in Kinds |-> EmptyBag]
  /\ mqtt_state = [status |-> "Unknown", failed_publish_count |-> 0]
  /\ consecutive_errors = 0
  /\ since_recovery_attempt = 0
  /\ samples = 0
  /\ iterations = 0
  /\ faults = 0
  /\ trace = <<>>
  /\ last = NoStoreOp

StoreNext ==
  PutUpstream \/ PutCache \/ Drain \/ CleanupOldCache \/ CheckPostgresHealth

StoreSpec == StoreInit /\ [][StoreNext]_vars

\* ----------------------------------------------------------------- C15
\* the second of two drains in a row over the same batch of one kind, the
\* first of which replayed the whole batch to upstream (the batch stayed in
\* the live cache because its archival failed)
DrainedAgain(kind) ==
  /\ last.from = "drain" /\ last.prev.from = "drain"
  /\ last.batch[kind] # {}
  /\ last.batch[kind] = last.prev.batch[kind]
  /\ last.prev.replayed[kind] = last.prev.batch[kind]

\* C15: a drain over the batch that the drain before it had replayed leaves
\* the upstream table with the rows and the values it had after the first.
C15_DrainTwiceSameUpstream ==
  \A kind \in Kinds : DrainedAgain(kind) => pv_data[kind] = last.data[kind]

C15_Witness ==
  \E kind \in Kinds :
    DrainedAgain(kind) /\ last.replayed[kind] = last.batch[kind]

\* ----------------------------------------------------------------- C16
RowAt(table, t) == CHOOSE r \in table : r.timestamp = t
LiveWriteToExisting ==
  /\ last.from = "put_upstream" /\ last.ok
  /\ last.row.timestamp \in Timestamps(last.data[last.kind])

\* C16: after a drain every row that upstream held before it is still there
\* with the values it had; after a successful live write to a timestamp that
\* upstream held, the row of that timestamp carries the values written.
C16_DrainKeepsLiveWriteReplaces ==
  /\ last.from = "drain" =>
       \A kind \in Kinds : \A r \in last.data[kind] : r \in pv_data[kind]
  /\ LiveWriteToExisting =>
       /\ last.row \in pv_data[last.kind]
       /\ Timestamps(pv_data[last.kind]) = Timestamps(last.data[last.kind])

\* the drain replayed a row whose timestamp upstream held with other values
C16_Witness ==
  /\ last.from = "drain"
  /\ \E kind \in Kinds : \E r \in last.replayed[kind] :
       /\ r.timestamp \in Timestamps(last.data[kind])
       /\ RowAt(last.data[kind], r.timestamp).sample # r.sample

\* the live write replaced other values
C16_ReplaceWitness ==
  /\ LiveWriteToExisting
  /\ RowAt(last.data[last.kind], last.row.timestamp).sample # last.row.sample

\* ----------------------------------------------------------------- C17
Unique(table) ==
  \A r \in table : \A q \in table : r.timestamp = q.timestamp => r = q
OtherKind(kind) == IF kind = "power" THEN "energy" ELSE "power"
CachePut == last.from = "put_cache" /\ last.ok
CachePutNew ==
  CachePut /\ last.row.timestamp \notin Timestamps(last.cached[last.kind])
CachePutExisting ==
  CachePut /\ last.row.timestamp \in Timestamps(last.cached[last.kind])
OtherCacheTablesUnchanged ==
  /\ pv_cache[OtherKind(last.kind)] = last.cached[OtherKind(last.kind)]
  /\ pv_archive = last.archived

\* C17: the live cache tables and the upstream tables hold at most one row
\* per timestamp; a cache put of a new timestamp adds one row to its kind's
\* live table and leaves the other live table and the two archive tables as
\* they were; a cache put of an existing timestamp replaces the row and
\* leaves the number of rows as it was.
C17_UniqueByTimestamp ==
  /\ \A kind \in Kinds : Unique(pv_cache[kind]) /\ Unique(pv_data[kind])
  /\ CachePutNew =>
       /\ pv_cache[last.kind] = last.cached[last.kind] \cup {last.row}
       /\ Cardinality(pv_cache[last.kind])
            = Cardinality(last.cached[last.kind]) + 1
       /\ OtherCacheTablesUnchanged
  /\ CachePutExisting =>
       /\ last.row \in pv_cache[last.kind]
       /\ Cardinality(pv_cache[last.kind])
            = Cardinality(last.cached[last.kind])
       /\ OtherCacheTablesUnchanged

\* a put replaced a row of other values, with the other tables not empty
C17_Witness ==
  /\ CachePutExisting
  /\ RowAt(last.cached[last.kind], last.row.timestamp).sample # last.row.sample

C17_NewWitness == CachePutNew /\ last.cached[last.kind] # {}

\* ----------------------------------------------------------------- C18
\* the timestamps that left a live cache table in the operation just made
Left(kind) == Timestamps(last.cached[kind]) \ Timestamps(pv_cache[kind])
InArchive(kind, t) ==
  \E r \in BagToSet(pv_archive[kind]) : r.timestamp = t

\* C18: a timestamp that left a live cache table in the operation just made
\* is in the upstream table and in the archive table of its kind.
C18_LeavesOnlyToArchive ==
  \A kind \in Kinds : \A t \in Left(kind) :
    t \in Timestamps(pv_data[kind]) /\ InArchive(kind, t)

\* ------------------------------------------------- the upstream tracker
\* TrackerSpec: the operations of PostgresDatabase that update its health
\* tracker (store_power_data, store_energy_data, health_check), called in
\* any order with any outcome, under any configured DB_MAX_FAILURES.
MaxTrackerOps == 5   \* operations in one run
MaxConfigured == 4   \* DB_MAX_FAILURES is 2..MaxConfigured

NoTrackerOp ==
  [from |-> "None", ok |-> TRUE, streak |-> 0,
   before |-> [health |-> "Healthy", consecutive_failures |-> 0,
               last_error |-> FALSE]]

\* one operation of PostgresDatabase; streak counts the failed operations
\* since the last successful one
TrackerStep(op, ok, w) ==
  /\ pg_state' = w.pg_state
  /\ pv_data' = w.pv_data
  /\ trace' = w.trace
  /\ iterations' = iterations + 1
  /\ last' = [from |-> op, ok |-> ok,
              streak |-> IF ok THEN 0 ELSE last.streak + 1,
              before |-> pg_state]
  /\ UNCHANGED <<coordinator, exit, pool, sync_batch_size,
                 max_failures_before_degraded,
                 pv_cache, pv_archive, mqtt_state, consecutive_errors,
                 since_recovery_attempt, samples, faults, sample_vars>>

\* PostgresDatabase::store_power_data / store_energy_data
TrackerPut ==
  /\ exit = "running" /\ iterations < MaxTrackerOps
  /\ \E kind \in Kinds, ok \in DbOutcomes :
       TrackerStep("put_upstream", pool /\ ok,
                   pg_store_data(StoreWorld(1, 1), kind, ok))

\* PostgresDatabase::health_check
TrackerProbe ==
  /\ exit = "running" /\ iterations < MaxTrackerOps
  /\ \E ok \in DbOutcomes :
       TrackerStep("probe", pool /\ ok, health_check(World(0), ok))

\* the state after PostgresDatabase::new
TrackerInit ==
  /\ coordinator = "Healthy"
  /\ exit = "running"
  /\ pool \in BOOLEAN
  /\ sync_batch_size = SyncBatchSize
  /\ max_failures_before_degraded \in 2..MaxConfigured
  /\ NoCollection
  /\ pg_state = [health |-> IF pool THEN "Healthy" ELSE "Disconnected",
                 consecutive_failures |-> 0, last_error |-> FALSE]
  /\ pv_data = NoTables
  /\ pv_cache = NoTables
  /\ pv_archive = [kind \in Kinds |-> EmptyBag]
  /\ mqtt_state = [status |-> "Unknown", failed_publish_count |-> 0]
  /\ consecutive_errors = 0
  /\ since_recovery_attempt = 0
  /\ samples = 0
  /\ iterations = 0
  /\ faults = 0
  /\ trace = <<>>
  /\ last = NoTrackerOp

TrackerNext == TrackerPut \/ TrackerProbe

TrackerSpec == TrackerInit /\ [][TrackerNext]_vars

\* ----------------------------------------------------------------- C19
UpstreamSucceeded == last.from \in {"put_upstream", "probe"} /\ last.ok

\* C19: after a successful upstream write or probe the tracker reads
\* Healthy, no consecutive failure and no last error.
C19_SuccessResetsTracker ==
  UpstreamSucceeded =>
    pg_state = [health |-> "Healthy", consecutive_failures |-> 0,
                last_error |-> FALSE]

\* a success after the tracker had reached Disconnected
C19_Witness ==
  /\ UpstreamSucceeded
  /\ last.before.health = "Disconnected"
  /\ last.before.consecutive_failures >= DisconnectedAfter

\* ----------------------------------------------------------------- C20
\* C20: after k failed statements in a row on a live pool the tracker reads
\* Disconnected if k is at least the configured max_failures_before_degraded,
\* Degraded otherwise.
C20_ThresholdIsConfigured ==
  (pool /\ last.streak > 0) =>
    pg_state.health = IF last.streak >= max_failures_before_degraded
                      THEN "Disconnected" ELSE "Degraded"

\* with the default configuration the claim holds
C20_ThresholdDefault ==
  (pool /\ last.streak > 0
     /\ max_failures_before_degraded = DefaultMaxFailures) =>
    pg_state.health = IF last.streak >= max_failures_before_degraded
                      THEN "Disconnected" ELSE "Degraded"

\* ----------------------------------------------------------------- C21
UpstreamFailed == last.from \in {"put_upstream", "probe"} /\ ~last.ok

\* C21: a failed upstream write or probe, a missing pool included, adds one
\* to consecutive_failures and leaves an error in last_error.
C21_FailureCounted ==
  UpstreamFailed =>
    /\ pg_state.consecutive_failures = last.before.consecutive_failures + 1
    /\ pg_state.last_error

\* on a live pool the failure is counted
C21_FailureCountedOnLivePool ==
  (pool /\ UpstreamFailed) =>
    /\ pg_state.consecutive_failures = last.before.consecutive_failures + 1
    /\ pg_state.last_error

\* ------------------------------------------- collection and transformer
\* SampleSpec: the front of one cycle.  The readings the device answers and
\* the battery configuration are drawn at the start; the outcome of every
\* attempt of the collection is an input.  The collection is followed by
\* ProcessedData::process_raw and by the conversion into PvPowerRecord.
MAX_RETRIES == 3
BASE_DELAY_MS == 100

Int32Max == 2147483647
Int32Min == -2147483647 - 1
AsU16(v) == v % 65536
AsU8(v) == v % 256

RECURSIVE Pow2(_)
\* 2_u64.pow(k)
Pow2(k) == IF k = 0 THEN 1 ELSE 2 * Pow2(k - 1)

\* a -= b on an i32 with 0 <= b: the difference, or, when it lies below
\* i32::MIN, a panic in a build with overflow checks (debug) and the
\* difference wrapped around to the top of the range in a build without
\* (release)
sub_assign(a, b, overflow_checks) ==
  IF a >= Int32Min + b THEN [status |-> "Ok", value |-> a - b]
  ELSE IF overflow_checks THEN [status |-> "panic"]
  ELSE [status |-> "Ok", value |-> Int32Max - (b - (a - Int32Min)) + 1]

\* RawPowerData::get_data once every request was answered: the casts, the
\* all-default check, and the DC correction of the battery power.  The
\* readings are drawn within i32, where `as i32` changes nothing.
get_data(resp, overflow_checks) ==
  LET raw == [dc_power |-> AsU16(resp.dc_power),
              production_power |-> AsU16(resp.production_power),
              grid_power |-> resp.grid_power,
              battery_state |-> AsU8(resp.battery_state),
              battery_power |-> resp.battery_power,
              consumption_power |-> AsU16(resp.consumption_power)]
      default == [dc_power |-> 0, production_power |-> 0, grid_power |-> 0,
                  battery_state |-> 0, battery_power |-> 0,
                  consumption_power |-> 0]
      corrected == sub_assign(raw.battery_power, raw.dc_power, overflow_checks)
  IN IF raw = default THEN [status |-> "Err"]
     ELSE IF corrected.status = "panic" THEN [status |-> "panic"]
     ELSE [status |-> "Ok",
           power_data |-> [raw EXCEPT !.battery_power = corrected.value]]

\* RawPVData::fill_raw.  answer "Ok": every request was answered with the
\* address it asked for and the energy readings were not all zero; "Err": a
\* request failed; "Panic": a response carried an address that none of the
\* arms of the match in get_data names, and the `_ =>` arm panicked.
fill_raw(resp, answer, overflow_checks) ==
  CASE answer = "Ok" -> get_data(resp, overflow_checks)
    [] answer = "Panic" -> [status |-> "panic"]
    [] OTHER -> [status |-> "Err"]

\* v.abs().try_into().unwrap() on an i32: i32::MIN has no absolute value
\* (abs panics with overflow checks, and returns i32::MIN without them,
\* which try_into::<u32> rejects and unwrap turns into a panic)
abs_try_into_unwrap(v) ==
  IF v = Int32Min THEN [status |-> "panic"]
  ELSE [status |-> "Ok", value |-> IF v < 0 THEN 0 - v ELSE v]

\* ------------------------------------------------------------ f32
\* The f32 values of the transformer are zero or positive normal numbers:
\* [mant, exp] is mant * 2^exp, with mant = 0 or 2^23 <= mant < 2^24.
F32Zero == [mant |-> 0, exp |-> 0]

RECURSIVE Normalized(_, _)
Normalized(mant, exp) ==
  IF mant = 0 THEN F32Zero
  ELSE IF mant < 2^23 THEN Normalized(2 * mant, exp - 1)
  ELSE [mant |-> mant, exp |-> exp]

\* `v as f32` for an unsigned v below 2^24 (u8, u16, a literal): exact
as_f32(v) == Normalized(v, 0)

\* round to nearest, ties to even: mant holds the first 24 bits of the exact
\* result, round is the bit after them, sticky tells whether a later bit is set
RoundedF32(mant, exp, round, sticky) ==
  LET m == IF round /\ (sticky \/ mant % 2 = 1) THEN mant + 1 ELSE mant
  IN IF m = 2^24 THEN [mant |-> 2^23, exp |-> exp + 1]
     ELSE [mant |-> m, exp |-> exp]

RECURSIVE LongDivision(_, _, _, _)
\* bits more binary digits of a quotient q with remainder r, divisor d
LongDivision(q, r, d, bits) ==
  IF bits = 0 THEN [q |-> q, r |-> r]
  ELSE IF 2 * r >= d THEN LongDivision(2 * q + 1, 2 * r - d, d, bits - 1)
  ELSE LongDivision(2 * q, 2 * r, d, bits - 1)

\* a / b on f32, b not zero
f32_div(a, b) ==
  IF a.mant = 0 THEN F32Zero
  ELSE LET bits == IF a.mant >= b.mant THEN 24 ELSE 25
           d == LongDivision(a.mant \div b.mant, a.mant % b.mant, b.mant, bits)
       IN RoundedF32(d.q \div 2, a.exp - b.exp - bits + 1,
                     d.q % 2 = 1, d.r # 0)

\* a * b on f32: the 48-bit product of the mantissas, held as
\* high * 2^24 + low and computed from their 12-bit halves
f32_mul(a, b) ==
  IF a.mant = 0 \/ b.mant = 0 THEN F32Zero
  ELSE LET ah == a.mant \div 4096
           al == a.mant % 4096
           bh == b.mant \div 4096
           bl == b.mant % 4096
           mid == ah * bl + al * bh
           sum == al * bl + (mid % 4096) * 4096
           low == sum % 2^24
           high == ah * bh + mid \div 4096 + sum \div 2^24
       IN IF high >= 2^23
          THEN RoundedF32(high, a.exp + b.exp + 24,
                          low >= 2^23, low % 2^23 # 0)
          ELSE RoundedF32(2 * high + low \div 2^23, a.exp + b.exp + 23,
                          (low % 2^23) >= 2^22, low % 2^22 # 0)

\* `a as i32` on a non-negative f32: toward zero, saturating at i32::MAX
f32_as_i32(a) ==
  IF a.exp >= 8 THEN Int32Max
  ELSE IF a.exp >= 0 THEN a.mant * Pow2(a.exp)
  ELSE IF a.exp <= -24 THEN 0
  ELSE a.mant \div Pow2(0 - a.exp)

\* ProcessedData::process_raw
process_raw(raw, config) ==
  LET grid_power == raw.power_data.grid_power
      battery_power == raw.power_data.battery_power
      battery_percent == raw.power_data.battery_state
      supply_state ==
        IF grid_power < 0
        THEN [tag |-> "Surplus", power |-> abs_try_into_unwrap(grid_power)]
        ELSE IF grid_power > 0
        THEN [tag |-> "Demand",
              power |-> [status |-> "Ok", value |-> grid_power]]
        ELSE [tag |-> "Offline", power |-> [status |-> "Ok", value |-> 0]]
      percent == f32_div(as_f32(battery_percent), as_f32(100))
      battery_energy == f32_mul(as_f32(config.max_battery_energy), percent)
      battery_state ==
        IF battery_power >= 100
        THEN [tag |-> "Discharging",
              power |-> [status |-> "Ok", value |-> battery_power]]
        ELSE IF battery_power < -100
        THEN [tag |-> "Loading", power |-> abs_try_into_unwrap(battery_power)]
        ELSE IF battery_percent <= config.empty_threshold
        THEN [tag |-> "Empty", power |-> [status |-> "Ok", value |-> 0]]
        ELSE [tag |-> "Full", power |-> [status |-> "Ok", value |-> 0]]
  IN IF supply_state.power.status = "panic"
        \/ battery_state.power.status = "panic"
     THEN [status |-> "panic"]
     ELSE [status |-> "Ok",
           supply_state |-> [tag |-> supply_state.tag,
                             power |-> supply_state.power.value],
           battery_status |->
             [battery_state |-> [tag |-> battery_state.tag,
                                 power |-> battery_state.power.value],
              battery_percent |-> battery_percent,
              battery_energy |-> battery_energy],
           full_production |-> raw.power_data.production_power,
           consumption |-> raw.power_data.consumption_power]

\* SensorValue::power_value of BatteryState and of SupplyState
power_value(state) ==
  CASE state.tag \in {"Loading", "Surplus"} -> 0 - state.power
    [] state.tag \in {"Discharging", "Demand"} -> state.power
    [] OTHER -> 0

\* SensorValue::state_string
state_string(state) ==
  CASE state.tag = "Loading" -> "charging"
    [] state.tag = "Discharging" -> "discharging"
    [] state.tag = "Full" -> "full"
    [] state.tag = "Empty" -> "empty"
    [] state.tag = "Surplus" -> "surplus"
    [] state.tag = "Demand" -> "demand"
    [] OTHER -> "offline"

\* From<&ProcessedData> for PvPowerRecord, without the timestamp;
\* battery_energy_wh is (battery_energy * 1000.0) as i32
PvPowerRecord_from(data) ==
  [status |-> "Ok",
   pv_production |-> data.full_production,
   supply_power |-> power_value(data.supply_state),
   battery_power |-> power_value(data.battery_status.battery_state),
   consumption |-> data.consumption,
   battery_state |-> state_string(data.battery_status.battery_state),
   supply_state |-> state_string(data.supply_state),
   battery_percent |-> data.battery_status.battery_percent,
   battery_energy_wh |->
     f32_as_i32(f32_mul(data.battery_status.battery_energy, as_f32(1000)))]

\* the CHECK constraints of pv_power_cache and pv_power_data
check_constraints(record) ==
  /\ record.battery_percent >= 0 /\ record.battery_percent <= 100
  /\ record.battery_energy_wh >= 0

CollectingKinds == {"Healthy", "DegradedNoDB", "DegradedNoMqtt", "CacheOnly"}

GridReadings == {Int32Min, -800, 0, 800}
BatteryReadings == {Int32Min, -1500, -101, -100, -99, 0, 100}
DcReadings == {0, 1}
SocReadings == {0, 25, 39, 75, 100, 150, 281}
LoadReadings == {0, 1200}
BatteryConfigs ==
  {[max_battery_energy |-> m, empty_threshold |-> e] :
     m \in {1, 10000}, e \in {10, 25}}

SampleInit ==
  /\ coordinator \in CollectingKinds
  /\ exit = "running"
  /\ pool = TRUE
  /\ sync_batch_size = SyncBatchSize
  /\ max_failures_before_degraded = DefaultMaxFailures
  /\ pg_state = [health |-> "Healthy", consecutive_failures |-> 0,
                 last_error |-> FALSE]
  /\ pv_data = [kind \in Kinds |-> {}]
  /\ pv_cache = [kind \in Kinds |-> {}]
  /\ pv_archive = [kind \in Kinds |-> EmptyBag]
  /\ mqtt_state = [status |-> "Unknown", failed_publish_count |-> 0]
  /\ consecutive_errors = 0
  /\ since_recovery_attempt = 0
  /\ samples = 0
  /\ iterations = 0
  /\ faults = 0
  /\ trace = <<>>
  /\ last = NoIteration
  /\ response \in
       {[dc_power |-> dc, production_power |-> load, grid_power |-> grid,
         battery_state |-> soc, battery_power |-> battery,
         consumption_power |-> load] :
          dc \in DcReadings, load \in LoadReadings, grid \in GridReadings,
          soc \in SocReadings, battery \in BatteryReadings}
  /\ battery_config \in BatteryConfigs
  /\ attempt = 0
  /\ delays = <<>>
  /\ raw_data = [status |-> "pending"]
  /\ processed_data = [status |-> "none"]
  /\ power_record = [status |-> "none"]

coordinator_vars ==
  <<coordinator, exit, pool, sync_batch_size,
    max_failures_before_degraded, pg_state, pv_data,
    pv_cache, pv_archive, mqtt_state, consecutive_errors,
    since_recovery_attempt, samples, iterations, faults, trace, last>>

\* one turn of the for loop of collect_raw_data_with_retry
CollectAttempt ==
  /\ coordinator \in CollectingKinds \ {"CacheOnly"}
  /\ raw_data.status = "pending" /\ attempt < MAX_RETRIES
  /\ \E answer \in CollectOutcomes, overflow_checks \in BOOLEAN :
       LET result == fill_raw(response, answer, overflow_checks) IN
       IF result.status \in {"Ok", "panic"} \/ attempt = MAX_RETRIES - 1
       THEN raw_data' = result /\ UNCHANGED <<attempt, delays>>
       ELSE /\ delays' = Append(delays, BASE_DELAY_MS * Pow2(attempt))
            /\ attempt' = attempt + 1
            /\ UNCHANGED raw_data
  /\ UNCHANGED <<response, battery_config, processed_data, power_record>>
  /\ UNCHANGED coordinator_vars

\* the collection of Coordinator<CacheOnly>::run_cycle: RawPVData::fill_raw
CacheOnlyCollect ==
  /\ coordinator = "CacheOnly"
  /\ raw_data.status = "pending"
  /\ \E answer \in CollectOutcomes, overflow_checks \in BOOLEAN :
       raw_data' = fill_raw(response, answer, overflow_checks)
  /\ UNCHANGED <<response, battery_config, attempt, delays, processed_data,
                 power_record>>
  /\ UNCHANGED coordinator_vars

\* ProcessedData::process_raw(raw_data, &config.battery_config)
Process ==
  /\ raw_data.status = "Ok" /\ processed_data.status = "none"
  /\ processed_data' = process_raw(raw_data, battery_config)
  /\ UNCHANGED <<response, battery_config, attempt, delays, raw_data,
                 power_record>>
  /\ UNCHANGED coordinator_vars

\* PvPowerRecord::from(&processed_data) in store_power_data
Convert ==
  /\ processed_data.status = "Ok" /\ power_record.status = "none"
  /\ power_record' = PvPowerRecord_from(processed_data)
  /\ UNCHANGED <<response, battery_config, attempt, delays, raw_data,
                 processed_data>>
  /\ UNCHANGED coordinator_vars

SampleNext == CollectAttempt \/ CacheOnlyCollect \/ Process \/ Convert

SampleSpec == SampleInit /\ [][SampleNext]_vars

\* ----------------------------------------------------------------- C22
Transformed == processed_data.status # "none"
Returned == processed_data.status = "Ok"
Emitted == power_record.status = "Ok"
GridPower == raw_data.power_data.grid_power

SignConvention ==
  /\ Returned =>
       /\ GridPower < 0 <=> processed_data.supply_state.tag = "Surplus"
       /\ GridPower > 0 <=> processed_data.supply_state.tag = "Demand"
       /\ GridPower = 0 <=> processed_data.supply_state.tag = "Offline"
  /\ Emitted =>
       /\ power_record.supply_power < 0 <=> power_record.supply_state = "surplus"
       /\ power_record.supply_power > 0 <=> power_record.supply_state = "demand"
       /\ power_record.supply_power = 0 <=> power_record.supply_state = "offline"
       /\ power_record.battery_power < 0
            <=> power_record.battery_state = "charging"
       /\ power_record.battery_power > 0
            <=> power_record.battery_state = "discharging"
       /\ power_record.battery_power = 0
            <=> power_record.battery_state \in {"full", "empty"}

\* C22: process_raw returns a sample for every raw sample, classified
\* surplus, demand or offline by the sign of the grid power, and in the
\* record made of it the signs of supply_power and battery_power agree with
\* supply_state and battery_state.
C22_SignConvention == (Transformed => Returned) /\ SignConvention

\* whenever process_raw returns, the classification and the signs are right
C22_SignConventionWhenReturned == SignConvention

\* ----------------------------------------------------------------- C23
CorrectedBatteryPower == raw_data.power_data.battery_power
BatteryState == processed_data.battery_status.battery_state
Soc == raw_data.power_data.battery_state

\* C23: with b the battery power after the DC correction, process_raw gives
\* Discharging(b) for b >= 100, Loading(-b) for b <= -100, and otherwise
\* Empty when the state of charge is at most empty_threshold, Full if not.
C23_BatteryState ==
  Returned =>
    LET b == CorrectedBatteryPower IN
    /\ b >= 100 => BatteryState = [tag |-> "Discharging", power |-> b]
    /\ b <= -100 => BatteryState = [tag |-> "Loading", power |-> 0 - b]
    /\ (b > -100 /\ b < 100) =>
         BatteryState.tag = IF Soc <= battery_config.empty_threshold
                            THEN "Empty" ELSE "Full"

\* ----------------------------------------------------------------- C24
\* C24: for a state of charge in 0..100 the record's battery_energy_wh is
\* max_battery_energy * soc / 100, rounded toward zero.
C24_BatteryEnergy ==
  (Emitted /\ Soc \in 0..100) =>
    power_record.battery_energy_wh
      = (battery_config.max_battery_energy * Soc) \div 100

\* ----------------------------------------------------------------- C25
\* C25: for every reading of the state of charge the sample's
\* battery_percent lies in 0..100 and the record passes the CHECK
\* constraints of the sinks.
C25_PercentInRange ==
  /\ Returned => processed_data.battery_status.battery_percent \in 0..100
  /\ Emitted => check_constraints(power_record)

\* ----------------------------------------------------------------- C26
Collected == raw_data.status # "pending"

\* C26: in every collecting state the collection makes at most three
\* attempts, has waited 100 * 2^k ms after failed attempt k and not after
\* the last one, and reports failure only after the third failed attempt.
C26_CollectionRetries ==
  /\ attempt < 3
  /\ Len(delays) = attempt
  /\ \A k \in 1..Len(delays) : delays[k] = 100 * Pow2(k - 1)
  /\ raw_data.status = "Err" => attempt = 2

\* the collection of the three states that call collect_raw_data_with_retry
C26_CollectionRetriesOutsideCacheOnly ==
  coordinator # "CacheOnly" => C26_CollectionRetries

\* ------------------------------------------------------------ cache drain
\* DrainSpec: drains of a live cache that SqliteCache::new found in the cache
\* file (CREATE TABLE IF NOT EXISTS keeps the rows of an earlier run), with
\* the configured batch size drawn from BatchSizes.  The cache can hold one
\* row more than the largest batch.
PersistedRows == {Row(t, t) : t \in 1..(MaxBatch + 1)}

\* CACHE_SYNC_BATCH_SIZE is any i64: a negative size, zero, 1..MaxBatch
BatchSizes == -1..MaxBatch

DrainInit ==
  /\ coordinator = "Healthy"
  /\ exit = "running"
  /\ pool = TRUE
  /\ sync_batch_size \in BatchSizes
  /\ max_failures_before_degraded = DefaultMaxFailures
  /\ NoCollection
  /\ pg_state = [health |-> "Healthy", consecutive_failures |-> 0,
                 last_error |-> FALSE]
  /\ pv_data = NoTables
  /\ pv_cache \in [Kinds -> SUBSET PersistedRows]
  /\ pv_archive = [kind \in Kinds |-> EmptyBag]
  /\ mqtt_state = [status |-> "Unknown", failed_publish_count |-> 0]
  /\ consecutive_errors = 0
  /\ since_recovery_attempt = 0
  /\ samples = MaxBatch + 1
  /\ iterations = 0
  /\ faults = 0
  /\ trace = <<>>
  /\ last = NoStoreOp

DrainNext == Drain

DrainSpec == DrainInit /\ [][DrainNext]_vars

\* the batch of the kind ran in the drain just made: its SELECT succeeded
BatchRan(kind) ==
  /\ last.from = "drain"
  /\ \E i \in DOMAIN trace : trace[i].op = SelectOp(kind) /\ trace[i].ok

\* the upstream upserts the drain just made attempted for the kind, in order
ReplayAttempts(kind) ==
  SelectSeq(trace, LAMBDA e : e.op = ReplayOp(kind))

\* C27: a drain replays the rows of one kind to upstream in ascending
\* timestamp order, starting with the oldest rows of the live cache and taking
\* at most n = sync_batch_size of them (none for a negative n): within the
\* drain upstream receives no row whose timestamp is smaller than that of a
\* row replayed before it.
C27_ReplayOldestAscending ==
  \A kind \in Kinds :
    BatchRan(kind) =>
      LET a == ReplayAttempts(kind)
          cached == last.cached[kind]
          sent == {a[i].ts : i \in DOMAIN a}
      IN /\ Len(a) = Min(IF sync_batch_size < 0 THEN 0 ELSE sync_batch_size,
                         Cardinality(cached))
         /\ \A i, j \in DOMAIN a : i < j => a[i].ts < a[j].ts
         /\ sent \subseteq Timestamps(cached)
         /\ \A r \in cached :
              r.timestamp \notin sent => \A t \in sent : t < r.timestamp

\* what holds of C27: the replays of a drain ascend from the oldest row of
\* the live cache, and there are at most n of them unless n is negative
C27_AscendingFromOldest ==
  \A kind \in Kinds :
    BatchRan(kind) =>
      LET a == ReplayAttempts(kind)
          cached == last.cached[kind]
          sent == {a[i].ts : i \in DOMAIN a}
      IN /\ sync_batch_size >= 0
              => Len(a) = Min(sync_batch_size, Cardinality(cached))
         /\ \A i, j \in DOMAIN a : i < j => a[i].ts < a[j].ts
         /\ sent \subseteq Timestamps(cached)
         /\ \A r \in cached :
              r.timestamp \notin sent => \A t \in sent : t < r.timestamp

\* a drain replayed a batch of two rows from a cache that held more
C27_Witness ==
  \E kind \in Kinds :
    /\ BatchRan(kind)
    /\ Len(ReplayAttempts(kind)) >= 2
    /\ sync_batch_size >= 0
    /\ Cardinality(last.cached[kind]) > sync_batch_size

\* with a negative batch size a drain replayed every row of the cache
C27_UnlimitedWitness ==
  \E kind \in Kinds :
    /\ BatchRan(kind)
    /\ sync_batch_size < 0
    /\ Len(ReplayAttempts(kind)) = MaxBatch + 1

\* the rows of the batch of the kind whose upstream upsert failed in the
\* drain just made
FailedRows(kind) == last.batch[kind] \ last.replayed[kind]

\* every upstream upsert the drain just made attempted for the kind succeeded
UpstreamTookAll(kind) ==
  \A i \in DOMAIN trace : trace[i].op = ReplayOp(kind) => trace[i].ok

\* what holds of C28: a row whose upstream upsert failed stays in the live
\* cache and is not archived, no row leaves the cache or enters the archive
\* without having been taken by upstream, and a later drain in which upstream
\* takes every row replays the row left behind
C28_OnlyReplayedRowsLeave ==
  \A kind \in Kinds :
    BatchRan(kind) =>
      /\ FailedRows(kind) \subseteq pv_cache[kind]
      /\ \A r \in FailedRows(kind) :
           CopiesIn(r, pv_archive[kind]) = CopiesIn(r, last.archived[kind])
      /\ \A r \in last.cached[kind] :
           (\/ r \notin pv_cache[kind]
            \/ CopiesIn(r, pv_archive[kind]) > CopiesIn(r, last.archived[kind]))
           => r \in last.replayed[kind]
      /\ (last.prev.from = "drain" /\ UpstreamTookAll(kind)) =>
           /\ (last.prev.batch[kind] \ last.prev.replayed[kind])
                \subseteq last.replayed[kind]
           /\ (last.prev.batch[kind] \ last.prev.replayed[kind])
                \subseteq pv_data[kind]

\* C28: in a drain, a row whose upstream upsert fails stays in the live cache
\* and is not archived, the rows whose upsert succeeded, and only they, are
\* moved to the archive, and a later drain with upstream healthy replays the
\* remaining row successfully.
C28_FailedRowStays ==
  /\ C28_OnlyReplayedRowsLeave
  /\ \A kind \in Kinds :
       BatchRan(kind) =>
         \A r \in last.replayed[kind] :
           /\ r \notin pv_cache[kind]
           /\ CopiesIn(r, pv_archive[kind]) > CopiesIn(r, last.archived[kind])

\* a drain in which upstream took one row of a batch and refused the other:
\* the archival was called for the first, the second is still cached and
\* no copy of it is in the archive
C28_Witness ==
  \E kind \in Kinds :
    /\ BatchRan(kind)
    /\ last.replayed[kind] # {}
    /\ \E i \in DOMAIN trace : trace[i].op = ArchiveOp(kind)
    /\ \E r \in FailedRows(kind) :
         r \in pv_cache[kind] /\ ~BagIn(r, pv_archive[kind])

\* the drain after it, with upstream healthy, replayed the row left behind
C28_RetryWitness ==
  \E kind \in Kinds :
    /\ BatchRan(kind)
    /\ last.prev.from = "drain"
    /\ last.prev.replayed[kind] # {}
    /\ (last.prev.batch[kind] \ last.prev.replayed[kind]) # {}
    /\ (last.prev.batch[kind] \ last.prev.replayed[kind])
         \subseteq last.replayed[kind]

\* C29: a drain stops at the first hard connection error: after an upstream
\* upsert of a batch failed, no further upstream upsert is attempted for the
\* remaining rows of that batch.
C29_StopsAtFirstError ==
  \A kind \in Kinds :
    BatchRan(kind) =>
      LET a == ReplayAttempts(kind)
      IN \A i, j \in DOMAIN a : i < j => a[i].ok

\* ------------------------------------------------------------------ C31
\* the timestamp keys of the sink writes of a kind in the iteration just
\* made (a write that failed before its record conversion carries none)
SinkWriteKeys(kind) ==
  {trace[i].ts : i \in Calls({PgOp(kind), CacheOp(kind)})} \ {-1}

\* C31: every sink write of the sample of one cycle (the upstream attempt,
\* the cache write, the cache copy made during a transition) carries the same
\* timestamp key; the cache copy made after a failed upstream write in
\* Healthy has the timestamp of that failed write.
C31_OneTimestampPerSample ==
  last.collected =>
    \A kind \in Kinds : Cardinality(SinkWriteKeys(kind)) <= 1

\* the sink writes of one iteration carry pairwise different keys, also
\* across the kinds
C31_EveryConversionHasItsOwnKey ==
  \A i, j \in Calls(UpstreamWrites \cup CacheWrites) :
    (i # j /\ trace[i].ts # -1) => trace[i].ts # trace[j].ts

\* ------------------------------------------------------------------ C32
\* the step just made was a poll of the broker event loop
Polled == Len(trace) = 1 /\ trace[1].op = "poll"
PollFailed == Polled /\ ~trace[1].ok

\* C32: in the broker event loop the health status is Degraded after the
\* first and the second consecutive poll error and Unhealthy after the third
\* (and any later one); a successful poll resets the count of consecutive
\* poll errors to 0.
C32_PollErrorsDegradeThenUnhealthy ==
  /\ PollFailed =>
       /\ consecutive_errors >= 1
       /\ consecutive_errors \in {1, 2} => mqtt_state.status = "Degraded"
       /\ consecutive_errors >= 3 => mqtt_state.status = "Unhealthy"
  /\ (Polled /\ trace[1].ok) => consecutive_errors = 0

\* the third poll error in a row
C32_Witness == PollFailed /\ consecutive_errors = 3

\* a successful poll after poll errors
C32_ResetWitness ==
  /\ Polled /\ trace[1].ok /\ mqtt_state.status = "Degraded"
  /\ mqtt_state.failed_publish_count = 0

\* ------------------------------------------------------------------ C33
\* the iteration just made was a degraded cycle whose recovery probe decided
\* a transition
ProbeDecided ==
  /\ last.from \in {"DegradedNoDB", "DegradedNoMqtt", "CacheOnly"}
  /\ last.result \in {"ToHealthy", "ToDegradedNoDB", "ToDegradedNoMqtt"}

\* C33: a cycle of DegradedNoDB, DegradedNoMqtt or CacheOnly in which the
\* recovery probe decides a transition returns before collecting: it collects
\* no sample, writes it to no sink and publishes nothing.  (The replays of
\* the drain of to_healthy are made by the transition, after the cycle.)
C33_ProbeDecisionReturnsEarly ==
  ProbeDecided =>
    /\ Called({"health_check", "get_health_status"})
    /\ ~last.collected /\ last.sample = 0
    /\ ~Called({"collect"})
    /\ ~Called(UpstreamWrites \cup CacheWrites)
    /\ ~Called(Publications)

\* DegradedNoDB recovered at the probe
C33_Witness == ProbeDecided /\ last.from = "DegradedNoDB"

\* CacheOnly and DegradedNoMqtt left at the probe
C33_CacheOnlyWitness == ProbeDecided /\ last.from = "CacheOnly"
C33_NoMqttWitness == ProbeDecided /\ last.from = "DegradedNoMqtt"

\* ------------------------------------------------------------------ C34
\* the iteration just made asked for, or arrived in, Shutdown
ShutdownRequested ==
  \/ last.result = "ToShutdown"
  \/ coordinator = "Shutdown" /\ last.from \notin {"None", "Shutdown"}

\* C34: a transition to Shutdown is requested only by a DegradedNoDB or
\* CacheOnly cycle in which a cache write returned an error: no cycle of
\* Healthy or DegradedNoMqtt requests it, and without a failed cache write
\* no failure of upstream or of the broker leads to Shutdown.
C34_ShutdownOnlyOnCacheError ==
  ShutdownRequested =>
    /\ last.result = "ToShutdown" /\ coordinator = "Shutdown"
    /\ last.from \in {"DegradedNoDB", "CacheOnly"}
    /\ last.collected
    /\ SomeFailed(CacheWrites)

\* a DegradedNoDB cycle whose cache write failed asked for Shutdown
C34_Witness ==
  ShutdownRequested /\ last.from = "DegradedNoDB" /\ coordinator = "Shutdown"

\* a Healthy cycle in which upstream and the broker both failed
C34_BothFailedWitness ==
  /\ last.from = "Healthy" /\ SomeFailed(UpstreamWrites)
  /\ SomeFailed({"publish_current"}) /\ coordinator = "CacheOnly"

\* ------------------------------------------------------------------ C35
\* FairSpec: the loop of run_coordinator is sequential, so the cycle of a
\* coordinator in Shutdown is run after the sleep that follows the transition.
\* ShutdownCycleReturns is the step of ShutdownIteration seen on exit: the
\* iteration is enabled in every running Shutdown state (its fault-free
\* inputs are always allowed) and it alone ends the run with "done".
ShutdownCycleReturns ==
  exit = "running" /\ coordinator = "Shutdown" /\ exit' = "done"

FairSpec == Spec /\ WF_exit(ShutdownCycleReturns)

\* the cleanups of the iteration just made
Cleanups == Calls({"publish_offline"})

\* C35: Shutdown is absorbing and final: once the coordinator is in Shutdown
\* no transition leaves it, the next cycle runs the cleanup exactly once and
\* run_coordinator then returns; after a transition to Shutdown the loop
\* always terminates.
C35_ShutdownAbsorbingAndFinal ==
  /\ [][coordinator = "Shutdown" => coordinator' = "Shutdown"]_vars
  /\ [][exit # "running" => UNCHANGED vars]_vars
  /\ [](last.from = "Shutdown" =>
          /\ exit = "done" /\ coordinator = "Shutdown"
          /\ Cardinality(Cleanups) = 1)
  /\ []((last.from # "Shutdown") => Cleanups = {})
  /\ (coordinator = "Shutdown") ~> (exit = "done")

\* run_coordinator returned after the cleanup of the Shutdown cycle
C35_Witness ==
  /\ exit = "done" /\ coordinator = "Shutdown" /\ last.from = "Shutdown"
  /\ Cardinality(Cleanups) = 1

\* ------------------------------------------------------------------ C36
\* C36: if the upstream pool was absent at construction, then for the rest of
\* the process every live upstream write and every drain upsert fails, every
\* probe returns Disconnected, and no recovery probe moves the coordinator
\* from DegradedNoDB or CacheOnly to Healthy, also when upstream would answer.
C36_AbsentPoolNeverRecovers ==
  ~pool =>
    /\ \A i \in Calls(UpstreamWrites \cup Replays \cup {"health_check"}) :
         ~trace[i].ok
    /\ pg_state.health = "Disconnected"
    /\ \A kind \in Kinds : pv_data[kind] = {}
    /\ ~RecoveredToHealthy
    /\ (last.from \in {"DegradedNoDB", "CacheOnly"} /\ exit = "running")
         => coordinator # "Healthy"

\* without a pool, a recovery probe of DegradedNoDB was made and the
\* coordinator stayed
C36_Witness ==
  /\ ~pool /\ last.from = "DegradedNoDB" /\ Called({"health_check"})
  /\ coordinator = "DegradedNoDB"

\* without a pool, a recovery probe of CacheOnly
C36_CacheOnlyWitness ==
  ~pool /\ last.from = "CacheOnly" /\ Called({"health_check"})

\* ------------------------------------------------------------------ C37
\* the iteration just made was a DegradedNoDB cycle that went to CacheOnly
\* because its publication failed
PublishSentToCacheOnly ==
  /\ last.from = "DegradedNoDB" /\ last.result = "ToCacheOnly"
  /\ SomeFailed({"publish_current"})

\* the rows of the sample of the iteration in a table
SampleRows(table) == {r \in table : r.sample = last.sample}

\* C37: on a DegradedNoDB -> CacheOnly transition caused by a failed broker
\* publish, the sample of that cycle is in the live cache exactly once per
\* kind: it was written before the publish and the transition does not write
\* it again.
C37_CachedOnceBeforePublish ==
  PublishSentToCacheOnly =>
    /\ coordinator = "CacheOnly" /\ last.collected
    /\ \A kind \in Kinds :
         /\ Cardinality(SampleRows(pv_cache[kind])) = 1
         /\ Cardinality(Calls({CacheOp(kind)})) = 1
         /\ \A i \in Calls({CacheOp(kind)}) :
              /\ trace[i].ok
              /\ \A j \in Calls({"publish_current"}) : i < j

C37_Witness ==
  /\ PublishSentToCacheOnly
  /\ \A kind \in Kinds : SampleRows(pv_cache[kind]) # {}

\* ------------------------------------------------------------------ C38
\* C38: in every reachable state of the upstream health tracker, health =
\* Healthy implies consecutive_failures = 0 and no last_error, and health =
\* Degraded implies 1 <= consecutive_failures <= 2.
C38_TrackerInvariant ==
  /\ pg_state.health = "Healthy" =>
       (pg_state.consecutive_failures = 0 /\ ~pg_state.last_error)
  /\ pg_state.health = "Degraded" =>
       (pg_state.consecutive_failures \in {1, 2} /\ pg_state.last_error)

\* the tracker is Degraded after a second failure in a row
C38_Witness ==
  /\ last.from \in {"put_upstream", "probe"} /\ ~last.ok
  /\ pg_state.health = "Degraded" /\ pg_state.consecutive_failures = 2

\* the tracker is Healthy again after failures
C38_HealthyWitness ==
  /\ UpstreamSucceeded /\ last.before.consecutive_failures >= 3
  /\ pg_state.health = "Healthy"

\* ------------------------------------------------------------------ C39
\* C39: a drain leaves the upstream health tracker unchanged: neither a
\* successful nor a failed replay upsert changes health, consecutive_failures
\* or last_error (last_success and last_failure are written together with
\* them, by update_success and update_failure only).
C39_DrainLeavesTracker ==
  [][last'.from = "drain" => pg_state' = pg_state]_vars

\* a drain replayed a row successfully and the tracker still shows the
\* failure of the live write before it
C39_Witness ==
  /\ last.from = "drain"
  /\ \E kind \in Kinds : last.replayed[kind] # {}
  /\ pg_state.health = "Degraded" /\ pg_state.consecutive_failures = 1

\* a drain with a failed replay upsert and a tracker without a failure
C39_FailedReplayWitness ==
  /\ last.from = "drain" /\ SomeFailed(Replays)
  /\ pg_state.health = "Healthy" /\ pg_state.consecutive_failures = 0

====
